---- MODULE Spec2Model ----
(***************************************************************************)
(* Model of src/cml_mcp.py: the CMLAuth session (authenticate / request)   *)
(* shared by cooperatively scheduled tool invocations, the create_link_v3  *)
(* and link_nodes tools built on it, and the handling of the interface     *)
(* listing by get_node_interfaces, get_physical_interfaces and link_nodes. *)
(*                                                                         *)
(* Strings whose characters matter (tokens, response texts, header values) *)
(* are sequences of one-character strings.  Each asyncio task is a member  *)
(* of Tasks; a task keeps the interpreter (running) from one await to the  *)
(* next, and every await of an HTTP exchange is a suspension point.        *)
(***************************************************************************)
EXTENDS Integers, Sequences, FiniteSets, TLC

\* ------------------------------------------------------------------ bounds
\* Largest number of quote characters the server puts on either side of the
\* token text in the body of the authentication response.
MaxQuotes == 2

\* Largest number of interfaces in the listing of a node.
MaxInterfaces == 3

\* Largest timeout argument of a wait_for_lab_nodes call.
MaxTimeout == 6

\* Largest number of nodes in the node listing of a lab.
MaxNodes == 2

\* Largest num_switches argument of a create_stp_lab call.
MaxSwitches == 6

\* Largest number of CMLAuth objects constructed by initialize_client calls.
MaxSessions == 2

\* ------------------------------------------------------- program constants
\* response.status_code == 401
Unauthorized == 401

\* len(interfaces) % 36, interfaces[i:i+36]: the length of a UUID string.
IdWidth == 36

\* await asyncio.sleep(5)
SleepSeconds == 5

\* ------------------------------------------------------------------ values
\* Python's None where a character string is expected (self.token = None).
None == <<"None">>

\* None where an opaque identifier is expected (dict.get without the key).
NoId == "None"

Tasks == {"t1", "t2"}

Quote == "\""

\* Token texts the server may issue: empty, plain, and with an inner quote.
TokenTexts == { <<>>, <<"a">>, <<"b", Quote, "c">> }

RECURSIVE Quotes(_)
Quotes(n) == IF n = 0 THEN <<>> ELSE <<Quote>> \o Quotes(n - 1)

\* Bodies of a 2xx authentication response: the token text inside 0..MaxQuotes
\* quote characters on each side.
AuthBodies == { Quotes(i) \o t \o Quotes(j) : i \in 0..MaxQuotes, j \in 0..MaxQuotes, t \in TokenTexts }

\* HTTP statuses the server may answer with.
Statuses == {200, 302, Unauthorized, 500}

\* Decoded bodies of a 2xx answer of POST /labs/{lab}/links: a JSON object
\* with or without an "id" member (possibly empty), a JSON array, or text that
\* is not JSON.
LinkBodies == { [kind |-> "dict", id |-> "L1"], [kind |-> "dict", id |-> "L2"], [kind |-> "dict", id |-> ""], [kind |-> "dict", id |-> NoId], [kind |-> "list", id |-> NoId], [kind |-> "text", id |-> NoId] }

OtherBody == [kind |-> "dict", id |-> NoId]

\* The two interface identifiers of a create_link_v3 call.
interface_id_a == "ifA"

interface_id_b == "ifB"

\* The node identifiers of the lab: link_nodes is called with node_id_a the
\* first of them and node_id_b either of them.
node_id_a == "nodeA"

OtherNode == "nodeB"

NodeIds == {node_id_a, OtherNode}

\* Interface identifiers: strings of IdWidth characters, one per digit.
IdChars == <<"1", "2", "3", "4", "5", "6", "7", "8", "9">>

InterfaceId(k) == [i \in 1..IdWidth |-> IdChars[k]]

\* The identifiers of the first n interfaces, in order.
IdList(n) == [k \in 1..n |-> InterfaceId(k)]

\* The characters of the strings of a sequence, one string after the other.
RECURSIVE Concat(_)
Concat(strings) == IF strings = <<>> THEN <<>> ELSE Head(strings) \o Concat(Tail(strings))

\* A decoded JSON value where an interface listing is expected: an array
\* (items: its elements), an object (items: its keys in insertion order), a
\* string (text), null, or a number.
ListBody(items) == [kind |-> "list", items |-> items, text |-> <<>>]

DictBody(keys) == [kind |-> "dict", items |-> keys, text |-> <<>>]

StrBody(text) == [kind |-> "str", items |-> <<>>, text |-> text]

NullBody == [kind |-> "null", items |-> <<>>, text |-> <<>>]

NumberBody == [kind |-> "number", items |-> <<>>, text |-> <<>>]

\* No listing fetched yet.
NoInterfaces == [kind |-> "none", items |-> <<>>, text |-> <<>>]

\* Decoded 2xx answers of GET /nodes/{node}/interfaces in a link_nodes call:
\* arrays of 0..MaxInterfaces ids, objects keyed by id, strings (empty, two
\* ids run together, two ids separated by a blank), null, a number.
NodeListBodies == { ListBody(IdList(n)) : n \in 0..MaxInterfaces } \cup { DictBody(IdList(n)) : n \in 0..1 } \cup { StrBody(<<>>), StrBody(Concat(IdList(2))), StrBody(InterfaceId(1) \o <<" ">> \o InterfaceId(2)) } \cup { NullBody, NumberBody }

\* The same answers for the other node of the lab: the server gives every
\* interface an identifier of its own, so its ids follow those of node_id_a.
OtherIdList(n) == [k \in 1..n |-> InterfaceId(MaxInterfaces + k)]

OtherNodeListBodies == { ListBody(OtherIdList(n)) : n \in 0..MaxInterfaces } \cup { DictBody(OtherIdList(n)) : n \in 0..1 } \cup { StrBody(<<>>), StrBody(Concat(OtherIdList(2))), StrBody(OtherIdList(2)[1] \o <<" ">> \o OtherIdList(2)[2]) } \cup { NullBody, NumberBody }

\* A decoded interface detail: an object whose "type" and "slot" members
\* may be absent (NoId).
Detail(type, slot, is_connected) == [type |-> type, slot |-> slot, is_connected |-> is_connected]

InterfaceDetails == { Detail(t, s, k) : t \in {"physical", "loopback", NoId}, s \in {"0", NoId}, k \in BOOLEAN }

\* Decoded 2xx answers of GET /interfaces/{interface} in a link_nodes call:
\* a free and a connected physical interface, a free loopback, and a free
\* interface with a slot and no type.
DetailBodies == { Detail("physical", "0", FALSE), Detail("physical", "0", TRUE), Detail("loopback", NoId, FALSE), Detail(NoId, "0", FALSE) }

\* The timeout arguments of wait_for_lab_nodes: an int, negative ones included.
Timeouts == (-1)..MaxTimeout

\* Node identifiers, in the order the server lists them.
NodeNames == <<"n1", "n2", "n3", "n4">>

\* The identifiers of the first n nodes of the lab.
NodeList(n) == [k \in 1..n |-> NodeNames[k]]

\* Decoded 2xx answers of GET /labs/{lab}: an object with or without a
\* "state" member, or an array.
LabDetailBodies == { [kind |-> "dict", id |-> NoId, state |-> s] : s \in {"STARTED", "STOPPED", NoId} } \cup { [kind |-> "list", id |-> NoId, state |-> NoId] }

\* Decoded 2xx answers of GET /labs/{lab}/nodes: an array of nodes (items:
\* the "id" of each, NoId where a node has none), an object keyed by node id,
\* a string with and without "Error" in it, or null.
LabNodesBodies == { ListBody(NodeList(n)) : n \in 0..MaxNodes } \cup { ListBody(<<NoId>> \o NodeList(1)) } \cup { DictBody(NodeList(n)) : n \in 1..MaxNodes } \cup { StrBody(<<"E", "r", "r", "o", "r">>), StrBody(<<"o", "k">>), NullBody }

\* Decoded 2xx answers of GET /labs/{lab}/nodes/{node}: an object with or
\* without a "state" member, or an array.
NodeBodies == { [kind |-> "dict", id |-> NoId, state |-> s] : s \in {"STARTED", "BOOTED", NoId} } \cup { [kind |-> "list", id |-> NoId, state |-> NoId] }

\* Decoded 2xx answers of POST /labs and POST /labs/{lab}/nodes: an object
\* with or without an "id" member (one id stands for all, ids being opaque
\* to the tools), a JSON array, or text that is not JSON.
CreatedBodies == { [kind |-> "dict", id |-> "L1"], [kind |-> "dict", id |-> ""], [kind |-> "dict", id |-> NoId], [kind |-> "list", id |-> NoId], [kind |-> "text", id |-> NoId] }

\* ------------------------------------------------------------- conversions
\* str.strip('"'): drop every leading and every trailing quote character.
RECURSIVE LStrip(_)
LStrip(s) == IF s # <<>> /\ Head(s) = Quote THEN LStrip(Tail(s)) ELSE s

RECURSIVE RStrip(_)
RStrip(s) == IF s # <<>> /\ s[Len(s)] = Quote THEN RStrip(SubSeq(s, 1, Len(s) - 1)) ELSE s

\* A strip that removes at most one quote on each side.
StripOne(s) == LET l == IF s # <<>> /\ Head(s) = Quote THEN Tail(s) ELSE s IN IF l # <<>> /\ l[Len(l)] = Quote THEN SubSeq(l, 1, Len(l) - 1) ELSE l

Strip(s) == RStrip(LStrip(s))

\* str.split(): the maximal runs of characters other than whitespace.
RECURSIVE Split(_)
Split(s) ==
  IF s = <<>>
    THEN <<>>
    ELSE IF Head(s) = " "
           THEN Split(Tail(s))
           ELSE LET blanks == { i \in 1..Len(s) : s[i] = " " }
                    n == IF blanks = {} THEN Len(s) + 1 ELSE CHOOSE i \in blanks : \A j \in blanks : i <= j
                IN <<SubSeq(s, 1, n - 1)>> \o Split(SubSeq(s, n + 1, Len(s)))

\* f"Bearer {self.token}"
Bearer(t) == <<"B", "e", "a", "r", "e", "r", " ">> \o (IF t = None THEN <<"N", "o", "n", "e">> ELSE t)

\* Python truthiness of self.token: None and the empty string are false.
Falsy(t) == t = None \/ t = <<>>

\* Python truthiness of a link id taken with result.get("id").
FalsyId(i) == i = NoId \/ i = ""

\* httpx (>= 0.26) Response.raise_for_status: raises unless 200 <= status < 300.
RaiseForStatusClientServerOnly(s) == s >= 400

RaiseForStatus(s) == ~(s >= 200 /\ s < 300)

\* --------------------------------------------------------------- endpoints
AuthenticateEndpoint == "/api/v0/authenticate"

AuthOkEndpoint == "/api/v0/authok"

LinksEndpoint == "/api/v0/labs/{lab_id}/links"

LabsEndpoint == "/api/v0/labs"

NodeInterfacesEndpoint(node_id) == "/api/v0/labs/{lab_id}/nodes/" \o node_id \o "/interfaces?operational=true"

LabEndpoint == "/api/v0/labs/{lab_id}"

LabNodesEndpoint == "/api/v0/labs/{lab_id}/nodes"

NodeEndpoint(node_id) == "/api/v0/labs/{lab_id}/nodes/" \o node_id

CreateNodeEndpoint == "/api/v0/labs/{lab_id}/nodes?populate_interfaces=true"

StopEndpoint == "/api/v0/labs/{lab_id}/stop"

ConfigEndpoint == "/api/v0/labs/{lab_id}/nodes/{node_id}/config"

InterfaceEndpoint == "/api/v0/labs/{lab_id}/interfaces/{interface_id}?operational=true"

\* ---------------------------------------------------------------- payloads
NoJson == [absent |-> TRUE]

Credentials == [username |-> "username", password |-> "password"]

\* link_data_1: the {i1, i2} payload.
link_data_1 == [i1 |-> interface_id_a, i2 |-> interface_id_b]

\* link_data_2: the {src_int, dst_int} payload.
link_data_2 == [src_int |-> interface_id_a, dst_int |-> interface_id_b]

\* A headers dict: None marks a key that is absent.
NoHeaders == [Authorization |-> None]

\* kwargs of a request call; hasHeaders is '"headers" in kwargs'.
Kwargs(hasHeaders, headers, json) == [hasHeaders |-> hasHeaders, headers |-> headers, json |-> json]

NoKwargs == Kwargs(FALSE, NoHeaders, NoJson)

\* An Authorization header of the caller's own.
CallerAuthorization == <<"B", "e", "a", "r", "e", "r", " ", "x">>

\* kwargs a collaborator may pass to CMLAuth.request directly: nothing, or
\* headers with its own Authorization.
CallerKwargs == { NoKwargs, Kwargs(TRUE, [Authorization |-> CallerAuthorization], NoJson) }

\* A request on the wire, and the absence of one.
Message(method, endpoint, auth, json) == [method |-> method, endpoint |-> endpoint, auth |-> auth, json |-> json]

NoMessage == Message("None", "None", None, NoJson)

\* Outcome of one HTTP exchange: a transport error or a response.
TransportError == [kind |-> "error", status |-> 0, body |-> OtherBody]

Response(status, body) == [kind |-> "http", status |-> status, body |-> body]

\* Result of a finished CMLAuth.request call: returned response or raised
\* exception, with the number of times the call sent its request, the number
\* of authenticate calls it made after a 401, and how its last authenticate
\* ended.
NoResult == [kind |-> "none", status |-> 0, body |-> OtherBody, sends |-> 0, reauths |-> 0, authenticated |-> "no"]

NoAttempts == [i1i2 |-> "none", srcdst |-> "none"]

\* The "details" member of a value that has none.
NoDetails == [kind |-> "none", id |-> NoId]

NoReturn == [status |-> "none", link_id |-> NoId, error |-> <<>>, message |-> <<>>, details |-> NoDetails]

Nobody == "nobody"

\* No value of "nodes" yet.
NoNodes == [kind |-> "none", items |-> <<>>, text |-> <<>>]

\* What a tool made of other tools has got: its num_switches argument, the
\* values its sub-operations returned in call order, its node list and the
\* report of the troubleshooting framework.
NoMade == [tool |-> "none", num_switches |-> 0, results |-> <<>>, nodes |-> <<>>, report |-> <<>>]

\* What a wait_for_lab_nodes call has done: its timeout argument, its node
\* set, the time since start_time, the requests of the node listing and of
\* node states it made, its sleeps, its sampling rounds, and the states the
\* nodes reported in the last round.
NoWait == [timeout |-> 0, nodes |-> NoNodes, elapsed |-> 0, listings |-> 0, samples |-> 0, sleeps |-> 0, rounds |-> 0, round |-> <<>>]

\* What the last step handed over: the result of the request call that ended
\* in it (req), the value of the tool that returned in it (ret, with the
\* outcome of its payload variants), the authentication response text that
\* was stored in it (text), and, when a loop of link_nodes over the
\* interfaces of a node (node: "a" or "b") ended in it, the interfaces whose
\* detail the loop requested (fetched) and the details it got (described);
\* and, when a sampling round of wait_for_lab_nodes or the call itself ended
\* in it, what the call had done by then (wait); and, when a tool made of
\* other tools returned in it, what it had got from them (made).
NoEvent == [task |-> Nobody, req |-> NoResult, ret |-> NoReturn, attempts |-> NoAttempts, text |-> None, node |-> "none", fetched |-> <<>>, described |-> <<>>, wait |-> NoWait, made |-> NoMade, status |-> 0]

\* ------------------------------------------------------------------- state
VARIABLES
  token,        \* CMLAuth.token
  defaultAuth,  \* CMLAuth.client.headers["Authorization"] (None: not set)
  running,      \* the task holding the interpreter, or Nobody
  tpc,          \* per task: position inside its tool ("idle", "call", "v1", "v2")
  pc,           \* per task: position inside CMLAuth.request / authenticate
  site,         \* per task: the active call of authenticate ("first": line 105, "retry": line 124)
  kw,           \* per task: kwargs of the active request call
  inflight,     \* per task: the request it is awaiting the answer of
  nSend,        \* per task: sends of the original request by the active request call
  nReauth,      \* per task: authenticate calls after a 401 by the active request call
  authState,    \* per task: the active request call's last authenticate ("no", "pending", "ok", "unverified")
  authRet,      \* per task: value returned by the active request call's last authenticate
  attempts,     \* per task: outcome of each payload variant of the active create_link_v3
  event,        \* what the last step returned to a caller
  posts,        \* per task: requests sent to the links endpoint by the active tool call
  interfaces_a, \* link_nodes: interfaces_a
  interfaces_b, \* link_nodes: interfaces_b
  fetched,      \* link_nodes: the interfaces whose detail the running loop has requested
  seen,         \* link_nodes: the details the running loop has got and passed over
  src_interface_id, \* link_nodes: src_interface_id
  dst_interface_id, \* link_nodes: dst_interface_id
  node_id_b,        \* link_nodes: the node_id_b argument (OtherNode between calls)
  timeout,      \* wait_for_lab_nodes: timeout
  nodes,        \* wait_for_lab_nodes: nodes
  elapsed,      \* wait_for_lab_nodes: asyncio.get_event_loop().time() - start_time
  all_ready,    \* wait_for_lab_nodes: all_ready
  sampled,      \* wait_for_lab_nodes: the states the nodes reported in the running round
  listings,     \* wait_for_lab_nodes: requests of the node listing by the active call
  samples,      \* wait_for_lab_nodes: requests of a node state by the active call
  sleeps,       \* wait_for_lab_nodes: sleeps of the active call
  rounds,       \* wait_for_lab_nodes: sampling rounds of the active call
  num_switches, \* create_stp_lab: num_switches
  results,      \* the values the sub-operations of the active tool call returned, in call order
  issue_area,   \* troubleshoot_lab: issue_area
  ts_nodes,     \* troubleshoot_lab: nodes
  report,       \* troubleshooting.report
  cml_auth,     \* the global cml_auth: the CMLAuth object in use, numbered in order of construction (0: None)
  console_manager, \* the global console_manager: the number of the CMLAuth object it was made for (0: None)
  raw,          \* the decoded answer of GET /nodes/{node}/interfaces handed to the three readers
  out           \* what each reader of the interface listing made of raw

\* The local variables of the link_nodes call.
nodeVars == <<interfaces_a, interfaces_b, fetched, seen, src_interface_id, dst_interface_id, node_id_b>>

normVars == <<raw, out>>

\* The local variables of the wait_for_lab_nodes call.
waitVars == <<timeout, nodes, elapsed, all_ready, sampled, listings, samples, sleeps, rounds>>

\* The local variables of the other tools.
\* The local variables of the tools made of other tools.
labVars == <<num_switches, results, issue_area, ts_nodes, report>>

toolVars == <<waitVars, labVars>>

\* The globals assigned by initialize_client.
sessionVars == <<cml_auth, console_manager>>

vars == <<token, defaultAuth, running, tpc, pc, site, kw, inflight, nSend, nReauth, authState, authRet, attempts, event, posts, nodeVars, normVars, toolVars, sessionVars>>

\* No answer handed to the readers of the interface listing.
NoRaw == [kind |-> "none", items |-> <<>>, text |-> <<>>]

NoOut == [node |-> NoRaw, physical |-> NoRaw, link |-> NoRaw]

\* No task started, and no token.
InitCalls ==
  /\ token = None
  /\ defaultAuth = None
  /\ running = Nobody
  /\ tpc = [c \in Tasks |-> "idle"]
  /\ pc = [c \in Tasks |-> "idle"]
  /\ site = [c \in Tasks |-> "first"]
  /\ kw = [c \in Tasks |-> NoKwargs]
  /\ inflight = [c \in Tasks |-> NoMessage]
  /\ nSend = [c \in Tasks |-> 0]
  /\ nReauth = [c \in Tasks |-> 0]
  /\ authState = [c \in Tasks |-> "no"]
  /\ authRet = [c \in Tasks |-> None]
  /\ attempts = [c \in Tasks |-> NoAttempts]
  /\ event = NoEvent
  /\ posts = [c \in Tasks |-> 0]
  /\ interfaces_a = NoInterfaces
  /\ interfaces_b = NoInterfaces
  /\ fetched = <<>>
  /\ seen = <<>>
  /\ src_interface_id = None
  /\ dst_interface_id = None
  /\ node_id_b = OtherNode
  /\ out = NoOut
  /\ timeout = 0
  /\ nodes = NoNodes
  /\ elapsed = 0
  /\ all_ready = FALSE
  /\ sampled = <<>>
  /\ listings = 0
  /\ samples = 0
  /\ sleeps = 0
  /\ rounds = 0
  /\ num_switches = 0
  /\ results = <<>>
  /\ issue_area = NoId
  /\ ts_nodes = <<>>
  /\ report = <<>>

\* CMLAuth.__init__: initialize_client has been called once and the new
\* session has no token yet (lines 158, 69); no troubleshooting tools.
InitSession == InitCalls /\ cml_auth = 1 /\ console_manager = 0

Init == InitSession /\ raw = NoRaw

\* An initialize_client call has made the troubleshooting tools (lines
\* 165-168) and a later one has replaced the session, which has no token yet.
InitLabs == InitCalls /\ cml_auth = 2 /\ console_manager = 1 /\ raw = NoRaw

\* The process has started (lines 54-59): no session, no troubleshooting tools.
InitProcess == InitCalls /\ cml_auth = 0 /\ console_manager = 0 /\ raw = NoRaw

\* ---------------------------------------------------------------- schedule
\* A task executes the statements between two awaits only while it holds the
\* interpreter.
MayRun(c) == running = c

\* Under threads the answer of a request is handled whoever is running.
MayResumePreemptive(c) == TRUE

\* A task suspended in an await resumes only when no task is running.
MayResume(c) == running = Nobody

\* ------------------------------------------------------------ the server
\* Answers to POST /api/v0/authenticate: a transport error, or a status with
\* the response text.
AuthOutcomes == { [kind |-> "error", status |-> 0, text |-> <<>>] } \cup { [kind |-> "http", status |-> s, text |-> IF RaiseForStatus(s) THEN <<>> ELSE b] : s \in Statuses, b \in AuthBodies }

\* Decoded bodies of the 2xx answers of an endpoint.
Bodies(endpoint) ==
  IF endpoint = LinksEndpoint THEN LinkBodies
  ELSE IF endpoint = NodeInterfacesEndpoint(node_id_a) THEN NodeListBodies
  ELSE IF endpoint = NodeInterfacesEndpoint(OtherNode) THEN OtherNodeListBodies
  ELSE IF endpoint = InterfaceEndpoint THEN DetailBodies
  ELSE IF endpoint = LabEndpoint THEN LabDetailBodies
  ELSE IF endpoint = CreateNodeEndpoint THEN CreatedBodies
  ELSE IF endpoint = LabNodesEndpoint THEN LabNodesBodies
  ELSE IF endpoint \in { NodeEndpoint(NodeNames[k]) : k \in 1..Len(NodeNames) } THEN NodeBodies
  ELSE {OtherBody}

\* Answers to any other request: a transport error, or a status with a body.
Outcomes(endpoint) == { TransportError } \cup { Response(s, IF RaiseForStatus(s) THEN OtherBody ELSE b) : s \in Statuses, b \in Bodies(endpoint) }

\* --------------------------------------------------- positional arguments
Method(c) ==
  IF tpc[c] \in {"v1", "v2", "post", "r_add", "o_lab", "o_router1", "o_router2", "s_lab", "s_switch"} THEN "POST"
  ELSE IF tpc[c] \in {"d_stop", "o_config1", "o_config2"} THEN "PUT"
  ELSE IF tpc[c] = "d_delete" THEN "DELETE"
  ELSE "GET"

Endpoint(c) ==
  IF tpc[c] \in {"v1", "v2", "post"} THEN LinksEndpoint
  ELSE IF tpc[c] = "list_a" THEN NodeInterfacesEndpoint(node_id_a)
  ELSE IF tpc[c] = "list_b" THEN NodeInterfacesEndpoint(node_id_b)
  ELSE IF tpc[c] \in {"detail_a", "detail_b"} THEN InterfaceEndpoint
  ELSE IF tpc[c] \in {"w_lab", "d_lab", "d_delete"} THEN LabEndpoint
  ELSE IF tpc[c] \in {"w_nodes", "t_nodes"} THEN LabNodesEndpoint
  ELSE IF tpc[c] \in {"r_add", "o_router1", "o_router2", "s_switch"} THEN CreateNodeEndpoint
  ELSE IF tpc[c] = "d_stop" THEN StopEndpoint
  ELSE IF tpc[c] \in {"o_config1", "o_config2"} THEN ConfigEndpoint
  ELSE IF tpc[c] = "w_node" THEN NodeEndpoint(nodes.items[Len(sampled) + 1])
  ELSE LabsEndpoint

\* Answers to the request of a task: POST /labs answers with the lab made.
Answers(c) ==
  IF Method(c) = "POST" /\ Endpoint(c) = LabsEndpoint
    THEN { TransportError } \cup { Response(s, IF RaiseForStatus(s) THEN OtherBody ELSE b) : s \in Statuses, b \in CreatedBodies }
    ELSE Outcomes(Endpoint(c))

\* ------------------------------------------------------ leaving a request
\* The tool returns, handing over handed: the task ends.
Leave(c, handed) ==
  /\ event' = handed
  /\ tpc' = [tpc EXCEPT ![c] = "idle"]
  /\ pc' = [pc EXCEPT ![c] = "idle"]
  /\ running' = Nobody
  /\ kw' = [kw EXCEPT ![c] = NoKwargs]
  /\ site' = [site EXCEPT ![c] = "first"]
  /\ nSend' = [nSend EXCEPT ![c] = 0]
  /\ nReauth' = [nReauth EXCEPT ![c] = 0]
  /\ authState' = [authState EXCEPT ![c] = "no"]
  /\ authRet' = [authRet EXCEPT ![c] = None]
  /\ attempts' = [attempts EXCEPT ![c] = NoAttempts]
  /\ posts' = [posts EXCEPT ![c] = 0]

\* The tool returns value.
Finish(c, r, value, tried) == Leave(c, [NoEvent EXCEPT !.task = c, !.req = r, !.ret = value, !.attempts = tried])

\* The tool, at position, calls cml_auth.request(..., **kwargs): the task goes
\* on running, at the first statement of request.
EnterRequest(c, position, kwargs) ==
  /\ tpc' = [tpc EXCEPT ![c] = position]
  /\ pc' = [pc EXCEPT ![c] = "check"]
  /\ running' = c
  /\ kw' = [kw EXCEPT ![c] = kwargs]
  /\ site' = [site EXCEPT ![c] = "first"]
  /\ nSend' = [nSend EXCEPT ![c] = 0]
  /\ nReauth' = [nReauth EXCEPT ![c] = 0]
  /\ authState' = [authState EXCEPT ![c] = "no"]
  /\ authRet' = [authRet EXCEPT ![c] = None]

\* ------------------------------------------------------------ return values
ErrorValue(error) == [status |-> "error", link_id |-> NoId, error |-> error, message |-> <<>>, details |-> NoDetails]

\* {"error": "Failed to create link - all payload formats were tried and failed"}
AllFormatsFailed == ErrorValue(<<"Failed", "to", "create", "link", "-", "all", "payload", "formats", "were", "tried", "and", "failed">>)

\* {"error": f"Error creating link: {str(e)}"}
ErrorCreatingLink == ErrorValue(<<"Error", "creating", "link:", "str(e)">>)

\* f"Created link between interfaces {interface_id_a} and {interface_id_b}"
CreatedLinkMessage == <<"Created", "link", "between", "interfaces", interface_id_a, "and", interface_id_b>>

\* {"link_id": link_id, "message": ..., "status": "success", "details": result}:
\* result is the decoded answer, an object whose "id" is link_id.
Success(link_id) == [status |-> "success", link_id |-> link_id, error |-> <<>>, message |-> CreatedLinkMessage, details |-> [kind |-> "dict", id |-> link_id]]

\* What a collaborator calling request directly gets: the response or the
\* exception.
Direct(r) == [status |-> r.kind, link_id |-> NoId, error |-> <<>>, message |-> <<>>, details |-> NoDetails]

\* ----------------------------------------------------------- create_link_v3
\* response.json() followed by result.get("id"); NoId also when either raises
\* (text that is not JSON, a JSON value that is no object) or request raised.
LinkId(r) == IF r.kind = "return" /\ r.body.kind = "dict" THEN r.body.id ELSE NoId

\* How one payload variant ended: "id" (a truthy id), "noid" (a 2xx object
\* without one), "raised" (an exception, caught by the variant's except).
AttemptOutcome(r) == IF r.kind = "return" /\ r.body.kind = "dict" THEN (IF FalsyId(r.body.id) THEN "noid" ELSE "id") ELSE "raised"

\* The request of the second variant is made from the first variant's try:
\* the sync code up to it, then cml_auth.request.
TrySecond(c, r, tried) ==
  /\ event' = [NoEvent EXCEPT !.task = c, !.req = r, !.attempts = tried]
  /\ attempts' = [attempts EXCEPT ![c] = tried]
  /\ EnterRequest(c, "v2", Kwargs(FALSE, NoHeaders, link_data_2))
  /\ UNCHANGED posts

\* The first variant's try block never returns: the second variant follows
\* even after an id.
CreateLinkAfterFirstNoReturn(c, r) ==
  TrySecond(c, r, [attempts[c] EXCEPT !.i1i2 = AttemptOutcome(r)])

\* The first variant without its own try/except: an exception reaches the
\* outer handler.
CreateLinkAfterFirstNoCatch(c, r) ==
  LET tried == [attempts[c] EXCEPT !.i1i2 = AttemptOutcome(r)]
  IN IF AttemptOutcome(r) = "id"
       THEN Finish(c, r, Success(LinkId(r)), tried)
       ELSE IF AttemptOutcome(r) = "raised"
              THEN Finish(c, r, ErrorCreatingLink, tried)
              ELSE TrySecond(c, r, tried)

\* The first variant gives up with the aggregate error as soon as it failed.
CreateLinkAfterFirstGiveUp(c, r) ==
  LET tried == [attempts[c] EXCEPT !.i1i2 = AttemptOutcome(r)]
  IN IF AttemptOutcome(r) = "id"
       THEN Finish(c, r, Success(LinkId(r)), tried)
       ELSE Finish(c, r, AllFormatsFailed, tried)

\* Lines 737-758: after the request of the {i1, i2} variant returned or raised.
CreateLinkAfterFirst(c, r) ==
  LET tried == [attempts[c] EXCEPT !.i1i2 = AttemptOutcome(r)]
  IN IF ~FalsyId(LinkId(r))
       THEN Finish(c, r, Success(LinkId(r)), tried)
       ELSE TrySecond(c, r, tried)

\* The second variant's success value also tells that {i1, i2} failed.
CreateLinkAfterSecondRecords(c, r) ==
  LET tried == [attempts[c] EXCEPT !.srcdst = AttemptOutcome(r)]
  IN IF ~FalsyId(LinkId(r))
       THEN Finish(c, r, [Success(LinkId(r)) EXCEPT !.error = <<"i1", "i2", "failed">>], tried)
       ELSE Finish(c, r, AllFormatsFailed, tried)

\* Lines 767-783: after the request of the {src_int, dst_int} variant.
CreateLinkAfterSecond(c, r) ==
  LET tried == [attempts[c] EXCEPT !.srcdst = AttemptOutcome(r)]
  IN IF ~FalsyId(LinkId(r))
       THEN Finish(c, r, Success(LinkId(r)), tried)
       ELSE Finish(c, r, AllFormatsFailed, tried)

\* A collaborator's direct call of request ends with the call.
DirectAfter(c, r) == Finish(c, r, Direct(r), NoAttempts)

\* --------------------------------------------------------------- link_nodes
\* {"error": f"No interfaces found for node {node_id}"}
NoInterfacesFound(node_id) == ErrorValue(<<"No", "interfaces", "found", "for", "node", node_id>>)

\* {"error": f"No available physical interface found for node {node_id}"}
NoAvailableInterface(node_id) == ErrorValue(<<"No", "available", "physical", "interface", "found", "for", "node", node_id>>)

\* {"error": f"Error linking nodes: {str(e)}"}
ErrorLinkingNodes == ErrorValue(<<"Error", "linking", "nodes:", "str(e)">>)

\* {"error": "Failed to create link, no link ID returned", "response": result}
NoLinkIdReturned(result) == [ErrorValue(<<"Failed", "to", "create", "link,", "no", "link", "ID", "returned">>) EXCEPT !.details = result]

\* {"link_id": link_id, "message": f"Created link between nodes ...", ...}
LinkNodesSuccess(link_id) == [Success(link_id) EXCEPT !.message = <<"Created", "link", "between", "nodes", node_id_a, "and", node_id_b>>]

\* Lines 826-841: a str is split at whitespace, a dict gives the list of its
\* keys, a list and a value of any other type stay as they are.
LinkNodesInterfaces(interfaces) ==
  IF interfaces.kind = "str" THEN ListBody(Split(interfaces.text))
  ELSE IF interfaces.kind = "dict" THEN ListBody(interfaces.items)
  ELSE interfaces

\* Python's "not interfaces" after lines 826-841: null and the empty list.
NotInterfaces(interfaces) == interfaces.kind = "null" \/ (interfaces.kind = "list" /\ interfaces.items = <<>>)

\* The test ignores "is_connected".
QualifiesPhysical(interface_data) == interface_data.type = "physical"

\* Lines 861-862 and 879-880: the test of an interface detail.
Qualifies(interface_data) == interface_data.type = "physical" /\ interface_data.is_connected = FALSE

\* link_nodes returns value; node tells the loop that ended with it, if one did.
LinkNodesReturns(c, r, value, tried, node) ==
  /\ Leave(c, [NoEvent EXCEPT !.task = c, !.req = r, !.ret = value, !.attempts = tried, !.node = node, !.fetched = IF node = "none" THEN <<>> ELSE fetched, !.described = IF node = "none" THEN <<>> ELSE Append(seen, r.body)])
  /\ interfaces_a' = NoInterfaces
  /\ interfaces_b' = NoInterfaces
  /\ fetched' = <<>>
  /\ seen' = <<>>
  /\ src_interface_id' = None
  /\ dst_interface_id' = None
  /\ node_id_b' = OtherNode

\* Any exception inside link_nodes ends in the handler of lines 920-924.
LinkNodesRaises(c, r) == LinkNodesReturns(c, r, ErrorLinkingNodes, attempts[c], "none")

\* Lines 814-823: interfaces_a is decoded, the listing of node B is requested.
LinkNodesAfterListA(c, r) ==
  IF r.kind # "return"
    THEN LinkNodesRaises(c, r)
    ELSE /\ interfaces_a' = r.body
         /\ event' = [NoEvent EXCEPT !.task = c, !.req = r]
         /\ EnterRequest(c, "list_b", NoKwargs)
         /\ UNCHANGED <<attempts, posts, interfaces_b, fetched, seen, src_interface_id, dst_interface_id, node_id_b>>

\* Lines 824-858: interfaces_b is decoded, both listings are made lists and
\* tested, the loop over interfaces_a requests the detail of its first
\* element ("for" over a number raises TypeError).
LinkNodesAfterListB(c, r) ==
  IF r.kind # "return"
    THEN LinkNodesRaises(c, r)
    ELSE LET a == LinkNodesInterfaces(interfaces_a)
             b == LinkNodesInterfaces(r.body)
         IN IF NotInterfaces(a)
              THEN LinkNodesReturns(c, r, NoInterfacesFound(node_id_a), attempts[c], "none")
              ELSE IF NotInterfaces(b)
                     THEN LinkNodesReturns(c, r, NoInterfacesFound(node_id_b), attempts[c], "none")
                     ELSE IF a.kind # "list"
                            THEN LinkNodesRaises(c, r)
                            ELSE /\ interfaces_a' = a
                                 /\ interfaces_b' = b
                                 /\ fetched' = <<a.items[1]>>
                                 /\ event' = [NoEvent EXCEPT !.task = c, !.req = r]
                                 /\ EnterRequest(c, "detail_a", NoKwargs)
                                 /\ UNCHANGED <<attempts, posts, seen, src_interface_id, dst_interface_id, node_id_b>>

\* The loop goes on with the next interface of the listing.
NextInterface(c, r, position, interfaces) ==
  /\ seen' = Append(seen, r.body)
  /\ fetched' = Append(fetched, interfaces.items[Len(fetched) + 1])
  /\ event' = [NoEvent EXCEPT !.task = c, !.req = r]
  /\ EnterRequest(c, position, NoKwargs)
  /\ UNCHANGED <<attempts, posts, interfaces_a, interfaces_b>>

\* The loop over interfaces_b starts with src_interface_id chosen.
StartLoopB(c, r, src) ==
  IF interfaces_b.kind # "list"
    THEN LinkNodesRaises(c, r)
    ELSE /\ src_interface_id' = src
         /\ seen' = <<>>
         /\ fetched' = <<interfaces_b.items[1]>>
         /\ event' = [NoEvent EXCEPT !.task = c, !.req = r, !.node = "a", !.fetched = fetched, !.described = Append(seen, r.body)]
         /\ EnterRequest(c, "detail_b", NoKwargs)
         /\ UNCHANGED <<attempts, posts, interfaces_a, interfaces_b, dst_interface_id, node_id_b>>

\* The link is posted with dst_interface_id chosen (lines 887-903).
PostLink(c, r, dst) ==
  /\ dst_interface_id' = dst
  /\ seen' = <<>>
  /\ fetched' = <<>>
  /\ event' = [NoEvent EXCEPT !.task = c, !.req = r, !.node = "b", !.fetched = fetched, !.described = Append(seen, r.body)]
  /\ EnterRequest(c, "post", Kwargs(TRUE, NoHeaders, [src_int |-> src_interface_id, dst_int |-> dst]))
  /\ UNCHANGED <<attempts, posts, interfaces_a, interfaces_b, src_interface_id, node_id_b>>

\* The loop over interfaces_a without "if not src_interface_id: return".
LinkNodesAfterDetailANoReturn(c, r) ==
  IF r.kind # "return"
    THEN LinkNodesRaises(c, r)
    ELSE IF Qualifies(r.body)
           THEN StartLoopB(c, r, fetched[Len(fetched)])
           ELSE IF Len(fetched) < Len(interfaces_a.items)
                  THEN NextInterface(c, r, "detail_a", interfaces_a) /\ UNCHANGED <<src_interface_id, dst_interface_id, node_id_b>>
                  ELSE StartLoopB(c, r, None)

\* The loop over interfaces_a without "break": it ends after the last
\* interface, with the last one that passed the test.
LinkNodesAfterDetailANoBreak(c, r) ==
  IF r.kind # "return"
    THEN LinkNodesRaises(c, r)
    ELSE LET src == IF Qualifies(r.body) THEN fetched[Len(fetched)] ELSE src_interface_id
         IN IF Len(fetched) < Len(interfaces_a.items)
              THEN NextInterface(c, r, "detail_a", interfaces_a) /\ src_interface_id' = src /\ UNCHANGED <<dst_interface_id, node_id_b>>
              ELSE IF src = None
                     THEN LinkNodesReturns(c, r, NoAvailableInterface(node_id_a), attempts[c], "a")
                     ELSE StartLoopB(c, r, src)

\* Lines 858-867: the detail of an interface of node A is decoded and tested;
\* the first that passes is src_interface_id and ends the loop, and a loop
\* that ends without one returns.  (A request that raised, here and below,
\* ends link_nodes in its handler.)
LinkNodesAfterDetailA(c, r) ==
  IF r.kind # "return"
    THEN LinkNodesRaises(c, r)
    ELSE IF Qualifies(r.body)
           THEN StartLoopB(c, r, fetched[Len(fetched)])
           ELSE IF Len(fetched) < Len(interfaces_a.items)
                  THEN NextInterface(c, r, "detail_a", interfaces_a) /\ UNCHANGED <<src_interface_id, dst_interface_id, node_id_b>>
                  ELSE LinkNodesReturns(c, r, NoAvailableInterface(node_id_a), attempts[c], "a")

\* Lines 876-903: the same for node B; with dst_interface_id found the link
\* is posted as {src_int, dst_int} with a headers dict of its own.
LinkNodesAfterDetailB(c, r) ==
  IF r.kind # "return"
    THEN LinkNodesRaises(c, r)
    ELSE IF Qualifies(r.body)
           THEN PostLink(c, r, fetched[Len(fetched)])
           ELSE IF Len(fetched) < Len(interfaces_b.items)
                  THEN NextInterface(c, r, "detail_b", interfaces_b) /\ UNCHANGED <<src_interface_id, dst_interface_id, node_id_b>>
                  ELSE LinkNodesReturns(c, r, NoAvailableInterface(node_id_b), attempts[c], "b")

\* Lines 905-919: the answer of the POST; result.get raises on a value that
\* is no object.
LinkNodesAfterPost(c, r) ==
  LET tried == [attempts[c] EXCEPT !.srcdst = AttemptOutcome(r)]
  IN IF r.kind = "return" /\ r.body.kind = "dict"
       THEN IF FalsyId(r.body.id)
              THEN LinkNodesReturns(c, r, NoLinkIdReturned(r.body), tried, "none")
              ELSE LinkNodesReturns(c, r, LinkNodesSuccess(r.body.id), tried, "none")
       ELSE LinkNodesReturns(c, r, ErrorLinkingNodes, tried, "none")

\* ------------------------------- get_node_interfaces, get_physical_interfaces
\* "Error"
ErrorWord == <<"E", "r", "r", "o", "r">>

\* f"Error getting node interfaces: {str(e)}"
ErrorGettingNodeInterfaces == ErrorWord \o <<" ", "g", "e", "t", "t", "i", "n", "g", " ", "n", "o", "d", "e", " ", "i", "n", "t", "e", "r", "f", "a", "c", "e", "s", ":", " ", "s", "t", "r", "(", "e", ")">>

\* f"Unexpected interface response format: {interfaces_response}"
UnexpectedFormat(interfaces_response) == <<"U", "n", "e", "x", "p", "e", "c", "t", "e", "d", " ", "i", "n", "t", "e", "r", "f", "a", "c", "e", " ", "r", "e", "s", "p", "o", "n", "s", "e", " ", "f", "o", "r", "m", "a", "t", ":", " ">> \o interfaces_response

\* f"Unexpected interface response type: {type(interfaces_response)}"
UnexpectedType == <<"U", "n", "e", "x", "p", "e", "c", "t", "e", "d", " ", "i", "n", "t", "e", "r", "f", "a", "c", "e", " ", "r", "e", "s", "p", "o", "n", "s", "e", " ", "t", "y", "p", "e", ":", " ", "t", "y", "p", "e">>

\* The request of get_node_interfaces raised.
RaisedBody == [kind |-> "raised", items |-> <<>>, text |-> <<>>]

\* Python's "sub in s" on strings.
Contains(s, sub) == \E i \in 0..(Len(s) - Len(sub)) : SubSeq(s, i + 1, i + Len(sub)) = sub

\* Slices of IdWidth characters that start at every character.
ChunksOverlapping(text) == [k \in 1..(Len(text) \div IdWidth) |-> SubSeq(text, k, k + IdWidth - 1)]

\* [interfaces[i:i+36] for i in range(0, len(interfaces), 36)], for a length
\* that is a multiple of 36.
Chunks(text) == [k \in 1..(Len(text) \div IdWidth) |-> SubSeq(text, (k - 1) * IdWidth + 1, k * IdWidth)]

\* Lines 496-519: what get_node_interfaces returns for the decoded answer
\* (or for a request that raised).
GetNodeInterfaces(interfaces) ==
  IF interfaces.kind = "raised" THEN StrBody(ErrorGettingNodeInterfaces)
  ELSE IF interfaces.kind = "list" THEN interfaces
  ELSE IF interfaces.kind = "str" THEN (IF Len(interfaces.text) % IdWidth = 0 THEN ListBody(Chunks(interfaces.text)) ELSE interfaces)
  ELSE interfaces

\* Lines 547-562: interface_ids as get_physical_interfaces derives it from
\* what get_node_interfaces returned, or the string it returns instead.
PhysicalInterfaceIds(interfaces_response) ==
  IF interfaces_response.kind = "str" /\ Contains(interfaces_response.text, ErrorWord) THEN interfaces_response
  ELSE IF interfaces_response.kind = "list" THEN interfaces_response
  ELSE IF interfaces_response.kind = "str" THEN (IF Len(interfaces_response.text) % IdWidth = 0 THEN ListBody(Chunks(interfaces_response.text)) ELSE StrBody(UnexpectedFormat(interfaces_response.text)))
  ELSE IF interfaces_response.kind = "dict" THEN ListBody(interfaces_response.items)
  ELSE StrBody(UnexpectedType)

\* Lines 568-576: the test of get_physical_interfaces on an interface detail.
is_physical(interface_data) ==
  IF interface_data.type = NoId
    THEN (IF interface_data.slot # NoId THEN TRUE ELSE interface_data.type = "physical")
    ELSE interface_data.type = "physical"

\* Interface listings of up to MaxInterfaces ids, each one of two ids.
InterfaceLists == UNION { [1..n -> {InterfaceId(1), InterfaceId(2)}] : n \in 0..MaxInterfaces }

\* The ids of a listing separated by blanks.
RECURSIVE JoinBlank(_)
JoinBlank(ids) == IF Len(ids) <= 1 THEN Concat(ids) ELSE Head(ids) \o <<" ">> \o JoinBlank(Tail(ids))

\* Decoded answers of GET /nodes/{node}/interfaces handed to the readers:
\* arrays, objects (distinct keys), strings (the ids run together, with or
\* without one more character, or separated by blanks; a text with "Error"),
\* null, a number; and a request that raised.
RawResponses ==
  { ListBody(l) : l \in InterfaceLists }
    \cup { DictBody(l) : l \in { k \in InterfaceLists : \A i, j \in 1..Len(k) : k[i] = k[j] => i = j } }
    \cup { StrBody(Concat(l) \o t) : l \in InterfaceLists, t \in { <<>>, <<"x">> } }
    \cup { StrBody(JoinBlank(l)) : l \in { k \in InterfaceLists : Len(k) >= 2 } }
    \cup { StrBody(ErrorWord), NullBody, NumberBody, RaisedBody }

\* get_node_interfaces returns.
GetNodeInterfacesReturns ==
  /\ raw # NoRaw
  /\ out.node = NoRaw
  /\ out' = [out EXCEPT !.node = GetNodeInterfaces(raw)]
  /\ UNCHANGED <<token, defaultAuth, running, tpc, pc, site, kw, inflight, nSend, nReauth, authState, authRet, attempts, event, posts, nodeVars, raw, toolVars, sessionVars>>

\* get_physical_interfaces calls get_node_interfaces and derives interface_ids.
GetPhysicalInterfacesReads ==
  /\ raw # NoRaw
  /\ out.physical = NoRaw
  /\ out' = [out EXCEPT !.physical = PhysicalInterfaceIds(GetNodeInterfaces(raw))]
  /\ UNCHANGED <<token, defaultAuth, running, tpc, pc, site, kw, inflight, nSend, nReauth, authState, authRet, attempts, event, posts, nodeVars, raw, toolVars, sessionVars>>

\* link_nodes makes a list of the decoded answer.
LinkNodesReads ==
  /\ raw # NoRaw
  /\ out.link = NoRaw
  /\ out' = [out EXCEPT !.link = LinkNodesInterfaces(raw)]
  /\ UNCHANGED <<token, defaultAuth, running, tpc, pc, site, kw, inflight, nSend, nReauth, authState, authRet, attempts, event, posts, nodeVars, raw, toolVars, sessionVars>>

\* ------------------------------------------------------- wait_for_lab_nodes
\* A returned str.
Text(words) == [NoReturn EXCEPT !.status = "str", !.message = words]

\* "Lab is not in STARTED state. Start the lab first."
NotStarted == Text(<<"Lab", "is", "not", "in", "STARTED", "state.", "Start", "the", "lab", "first.">>)

\* "All nodes in the lab are initialized and ready"
AllNodesReady == Text(<<"All", "nodes", "in", "the", "lab", "are", "initialized", "and", "ready">>)

\* f"Timeout reached ({timeout} seconds). Some nodes may not be fully initialized."
TimeoutReached == Text(<<"Timeout", "reached", "({timeout}", "seconds).", "Some", "nodes", "may", "not", "be", "fully", "initialized.">>)

\* f"Error waiting for nodes: {str(e)}"
ErrorWaitingForNodes == Text(<<"Error", "waiting", "for", "nodes:", "str(e)">>)

\* f"Error getting lab nodes: {str(e)}"
ErrorGettingLabNodes == ErrorWord \o <<" ", "g", "e", "t", "t", "i", "n", "g", " ", "l", "a", "b", " ", "n", "o", "d", "e", "s", ":", " ", "s", "t", "r", "(", "e", ")">>

\* {"error": f"Error getting lab details: {str(e)}"}: an object without "state".
ErrorGettingLabDetails == [kind |-> "dict", id |-> NoId, state |-> NoId]

\* Lines 278-284: what get_lab_details returns for the outcome of its request.
GetLabDetails(r) == IF r.kind = "return" THEN r.body ELSE ErrorGettingLabDetails

\* get_lab_nodes hands on the decoded answer as it is.
GetLabNodesAsAnswered(r) ==
  IF r.kind # "return" THEN StrBody(ErrorGettingLabNodes)
  ELSE r.body

\* Lines 369-385: what get_lab_nodes returns for the outcome of its request;
\* an array becomes an object keyed by the "id" of the nodes that have one.
GetLabNodes(r) ==
  IF r.kind # "return" THEN StrBody(ErrorGettingLabNodes)
  ELSE IF r.body.kind = "list" THEN DictBody(SelectSeq(r.body.items, LAMBDA i : ~FalsyId(i)))
  ELSE r.body

\* What the call has done, for the event of the step.
Waited(nd, el, sm, sl, rd, last) == [timeout |-> timeout, nodes |-> nd, elapsed |-> el, listings |-> listings, samples |-> sm, sleeps |-> sl, rounds |-> rd, round |-> last]

\* wait_for_lab_nodes returns value.
WaitReturns(c, r, value, done) ==
  /\ Leave(c, [NoEvent EXCEPT !.task = c, !.req = r, !.ret = value, !.wait = done])
  /\ timeout' = 0
  /\ nodes' = NoNodes
  /\ elapsed' = 0
  /\ all_ready' = FALSE
  /\ sampled' = <<>>
  /\ listings' = 0
  /\ samples' = 0
  /\ sleeps' = 0
  /\ rounds' = 0

\* The task goes on with another request of the same tool call.
WaitRequests(c, r, position) ==
  /\ event' = [NoEvent EXCEPT !.task = c, !.req = r]
  /\ EnterRequest(c, position, NoKwargs)
  /\ UNCHANGED <<attempts, posts>>

\* The loop test over a stopped clock: the deadline never passes.
WaitLoopNoDeadline(c, r, nd, el, sl) ==
  IF nd.kind # "dict"
    THEN WaitReturns(c, r, ErrorWaitingForNodes, Waited(nd, 0, 1, 0, 1, <<>>))
    ELSE IF nd.items = <<>>
           THEN WaitReturns(c, r, AllNodesReady, Waited(nd, 0, 1, 0, 1, <<>>))
           ELSE /\ nodes' = nd
                /\ elapsed' = 0
                /\ sleeps' = 0
                /\ all_ready' = TRUE
                /\ sampled' = <<>>
                /\ rounds' = 1
                /\ samples' = 1
                /\ WaitRequests(c, r, "w_node")
                /\ UNCHANGED <<timeout, listings>>

\* Lines 1056-1059 and 1072-1075, with all_ready false at the loop test:
\* another round while the deadline has not passed (nodes.items() raises on a
\* value that is no object; an empty node set leaves all_ready true), the
\* timeout result otherwise.
WaitLoop(c, r, nd, el, sl) ==
  IF el < timeout
    THEN IF nd.kind # "dict"
           THEN WaitReturns(c, r, ErrorWaitingForNodes, Waited(nd, el, samples, sl, rounds + 1, <<>>))
           ELSE IF nd.items = <<>>
                  THEN WaitReturns(c, r, AllNodesReady, Waited(nd, el, samples, sl, rounds + 1, <<>>))
                  ELSE /\ nodes' = nd
                       /\ elapsed' = el
                       /\ sleeps' = sl
                       /\ all_ready' = TRUE
                       /\ sampled' = <<>>
                       /\ rounds' = rounds + 1
                       /\ samples' = samples + 1
                       /\ WaitRequests(c, r, "w_node")
                       /\ UNCHANGED <<timeout, listings>>
    ELSE WaitReturns(c, r, TimeoutReached, Waited(nd, el, samples, sl, rounds, sampled))

\* The node listing is requested whatever the lab details are.
WaitAfterLabNoCheck(c, r) ==
  /\ listings' = listings + 1
  /\ WaitRequests(c, r, "w_nodes")
  /\ UNCHANGED <<timeout, nodes, elapsed, all_ready, sampled, samples, sleeps, rounds>>

\* Lines 1042-1049: the lab details; unless they are an object in state
\* STARTED the call returns, otherwise it requests the node listing.
WaitAfterLab(c, r) ==
  LET lab_details == GetLabDetails(r)
  IN IF lab_details.kind # "dict" \/ lab_details.state # "STARTED"
       THEN WaitReturns(c, r, NotStarted, Waited(nodes, elapsed, samples, sleeps, rounds, <<>>))
       ELSE /\ listings' = listings + 1
            /\ WaitRequests(c, r, "w_nodes")
            /\ UNCHANGED <<timeout, nodes, elapsed, all_ready, sampled, samples, sleeps, rounds>>

\* The first round is entered before the deadline is tested.
WaitAfterNodesRoundFirst(c, r) ==
  LET nd == GetLabNodes(r)
  IN IF nd.kind = "str" /\ Contains(nd.text, ErrorWord)
       THEN WaitReturns(c, r, Text(nd.text), Waited(nd, elapsed, samples, sleeps, rounds, <<>>))
       ELSE WaitLoopNoDeadline(c, r, nd, 0, 0)

\* Lines 1049-1056: the node listing; an error string is returned as it is,
\* otherwise start_time is taken and the loop is entered.
WaitAfterNodes(c, r) ==
  LET nd == GetLabNodes(r)
  IN IF nd.kind = "str" /\ Contains(nd.text, ErrorWord)
       THEN WaitReturns(c, r, Text(nd.text), Waited(nd, elapsed, samples, sleeps, rounds, <<>>))
       ELSE WaitLoop(c, r, nd, 0, 0)

\* await asyncio.sleep(5): the task is suspended.
Suspend(c, r, done) ==
  /\ event' = [NoEvent EXCEPT !.task = c, !.req = r, !.wait = done]
  /\ tpc' = [tpc EXCEPT ![c] = "w_sleep"]
  /\ pc' = [pc EXCEPT ![c] = "idle"]
  /\ running' = Nobody
  /\ kw' = [kw EXCEPT ![c] = NoKwargs]
  /\ site' = [site EXCEPT ![c] = "first"]
  /\ nSend' = [nSend EXCEPT ![c] = 0]
  /\ nReauth' = [nReauth EXCEPT ![c] = 0]
  /\ authState' = [authState EXCEPT ![c] = "no"]
  /\ authRet' = [authRet EXCEPT ![c] = None]
  /\ UNCHANGED <<attempts, posts>>

\* all_ready is the readiness of the node sampled last.
WaitAfterNodeLastOnly(c, r) ==
  IF r.kind # "return" \/ r.body.kind # "dict"
    THEN WaitReturns(c, r, ErrorWaitingForNodes, Waited(nodes, elapsed, samples, sleeps, rounds, sampled))
    ELSE LET state == IF r.body.state = NoId THEN "UNKNOWN" ELSE r.body.state
             round == Append(sampled, state)
             ready == state = "STARTED"
         IN IF Len(round) < Len(nodes.items)
              THEN /\ sampled' = round
                   /\ all_ready' = ready
                   /\ samples' = samples + 1
                   /\ WaitRequests(c, r, "w_node")
                   /\ UNCHANGED <<timeout, nodes, elapsed, listings, sleeps, rounds>>
              ELSE IF ready
                     THEN WaitReturns(c, r, AllNodesReady, Waited(nodes, elapsed, samples, sleeps, rounds, round))
                     ELSE /\ sampled' = round
                          /\ all_ready' = FALSE
                          /\ Suspend(c, r, Waited(nodes, elapsed, samples, sleeps, rounds, round))
                          /\ UNCHANGED <<timeout, nodes, elapsed, listings, samples, sleeps, rounds>>

\* The round ends at the first node that is not STARTED.
WaitAfterNodeBreaks(c, r) ==
  IF r.kind # "return" \/ r.body.kind # "dict"
    THEN WaitReturns(c, r, ErrorWaitingForNodes, Waited(nodes, elapsed, samples, sleeps, rounds, sampled))
    ELSE LET state == IF r.body.state = NoId THEN "UNKNOWN" ELSE r.body.state
             round == Append(sampled, state)
         IN IF state # "STARTED"
              THEN /\ sampled' = round
                   /\ all_ready' = FALSE
                   /\ Suspend(c, r, Waited(nodes, elapsed, samples, sleeps, rounds, round))
                   /\ UNCHANGED <<timeout, nodes, elapsed, listings, samples, sleeps, rounds>>
              ELSE IF Len(round) < Len(nodes.items)
                     THEN /\ sampled' = round
                          /\ samples' = samples + 1
                          /\ WaitRequests(c, r, "w_node")
                          /\ UNCHANGED <<timeout, nodes, elapsed, all_ready, listings, sleeps, rounds>>
                     ELSE WaitReturns(c, r, AllNodesReady, Waited(nodes, elapsed, samples, sleeps, rounds, round))

\* Lines 1060-1075: the state of a node; the round goes on with the next
\* node, and after the last one the call returns if every node of the round
\* was STARTED and sleeps otherwise.  (node_data.get raises on a value that is
\* no object.)
WaitAfterNode(c, r) ==
  IF r.kind # "return" \/ r.body.kind # "dict"
    THEN WaitReturns(c, r, ErrorWaitingForNodes, Waited(nodes, elapsed, samples, sleeps, rounds, sampled))
    ELSE LET state == IF r.body.state = NoId THEN "UNKNOWN" ELSE r.body.state
             round == Append(sampled, state)
             ready == all_ready /\ state = "STARTED"
         IN IF Len(round) < Len(nodes.items)
              THEN /\ sampled' = round
                   /\ all_ready' = ready
                   /\ samples' = samples + 1
                   /\ WaitRequests(c, r, "w_node")
                   /\ UNCHANGED <<timeout, nodes, elapsed, listings, sleeps, rounds>>
              ELSE IF ready
                     THEN WaitReturns(c, r, AllNodesReady, Waited(nodes, elapsed, samples, sleeps, rounds, round))
                     ELSE /\ sampled' = round
                          /\ all_ready' = FALSE
                          /\ Suspend(c, r, Waited(nodes, elapsed, samples, sleeps, rounds, round))
                          /\ UNCHANGED <<timeout, nodes, elapsed, listings, samples, sleeps, rounds>>

\* The sleep of line 1070 ends: time has advanced and the loop test is made.
SleepEnds(c) ==
  /\ tpc[c] = "w_sleep"
  /\ MayResume(c)
  /\ WaitLoop(c, NoResult, nodes, elapsed + SleepSeconds, sleeps + 1)
  /\ UNCHANGED <<token, defaultAuth, inflight, nodeVars, normVars, sessionVars, labVars>>

\* ----------------------------------------------------- tools made of tools
\* The task awaits something other than a request of its own.
Awaits(c, position) ==
  /\ tpc' = [tpc EXCEPT ![c] = position]
  /\ pc' = [pc EXCEPT ![c] = "idle"]
  /\ running' = Nobody
  /\ kw' = [kw EXCEPT ![c] = NoKwargs]
  /\ site' = [site EXCEPT ![c] = "first"]
  /\ nSend' = [nSend EXCEPT ![c] = 0]
  /\ nReauth' = [nReauth EXCEPT ![c] = 0]
  /\ authState' = [authState EXCEPT ![c] = "no"]
  /\ authRet' = [authRet EXCEPT ![c] = None]

\* A returned dict with "status": "success" that carries the decoded answer.
Got(words, result) == [NoReturn EXCEPT !.status = "success", !.message = words, !.details = result]

\* An exception leaves the tool: no value is returned.
Unhandled == [NoReturn EXCEPT !.status = "raise"]

\* Lines 236-262: what create_lab returns for the outcome of its request
\* (lab_data.get raises on a value that is no object).
CreateLab(r) ==
  IF r.kind # "return" \/ r.body.kind # "dict" THEN ErrorValue(<<"Error", "creating", "lab:", "str(e)">>)
  ELSE IF FalsyId(r.body.id) THEN ErrorValue(<<"Failed", "to", "create", "lab,", "no", "lab", "ID", "returned">>)
  ELSE Got(<<"Created", "lab", "{title}", "with", "ID:", r.body.id>>, r.body)

\* add_node without its try: an exception leaves it.
AddNodeNoCatch(r) ==
  IF r.kind # "return" \/ r.body.kind # "dict" THEN Unhandled
  ELSE IF FalsyId(r.body.id) THEN [ErrorValue(<<"Failed", "to", "create", "node,", "no", "node", "ID", "returned">>) EXCEPT !.details = r.body]
  ELSE Got(<<"Added", "node", "{label}", "with", "ID:", r.body.id>>, r.body)

\* Lines 420-477: what add_node returns for the outcome of its request.
AddNode(r) ==
  IF r.kind # "return" \/ r.body.kind # "dict" THEN ErrorValue(<<"Error", "adding", "node:", "str(e)">>)
  ELSE IF FalsyId(r.body.id) THEN [ErrorValue(<<"Failed", "to", "create", "node,", "no", "node", "ID", "returned">>) EXCEPT !.details = r.body]
  ELSE Got(<<"Added", "node", "{label}", "with", "ID:", r.body.id>>, r.body)

\* Lines 1249-1307: the same for create_switch_with_interfaces.
CreateSwitchWithInterfaces(r) ==
  IF r.kind # "return" \/ r.body.kind # "dict" THEN ErrorValue(<<"Error", "creating", "switch:", "str(e)">>)
  ELSE IF FalsyId(r.body.id) THEN [ErrorValue(<<"Failed", "to", "create", "switch,", "no", "node", "ID", "returned">>) EXCEPT !.details = r.body]
  ELSE Got(<<"Added", "switch", "{label}", "with", "{num_interfaces}", "interfaces", "(ID:", r.body.id>>, r.body)

\* Lines 967-976: what configure_node returns.
ConfigureNode(r) == IF r.kind = "return" THEN Text(<<"Configuration", "applied", "to", "node", "{node_id}">>) ELSE Text(<<"Error", "configuring", "node:", "str(e)">>)

\* Lines 1097-1101: what stop_lab returns.
StopLab(r) == IF r.kind = "return" THEN Text(<<"Lab", "{lab_id}", "stopped", "successfully">>) ELSE Text(<<"Error", "stopping", "lab:", "str(e)">>)

\* What link_nodes returns to a tool that calls it: a success with the link
\* id, or an error dict.
LinkNodesValues == { LinkNodesSuccess("L1"), ErrorLinkingNodes }

\* A sub-operation of a composite call with the value it returned.
Result(op, on, value) == [op |-> op, on |-> on, value |-> value]

\* The composite call returns value, having got results.
LabReturns(c, r, tool, value, got) ==
  /\ Leave(c, [NoEvent EXCEPT !.task = c, !.req = r, !.ret = value, !.made = [tool |-> tool, num_switches |-> num_switches, results |-> got, nodes |-> ts_nodes, report |-> report]])
  /\ num_switches' = 0
  /\ results' = <<>>
  /\ issue_area' = NoId
  /\ ts_nodes' = <<>>
  /\ report' = <<>>

\* The composite call goes on with a request, having got one more result.
LabRequests(c, r, position, kwargs, got) ==
  /\ event' = [NoEvent EXCEPT !.task = c, !.req = r]
  /\ EnterRequest(c, position, kwargs)
  /\ results' = got
  /\ UNCHANGED <<attempts, posts, num_switches, issue_area, ts_nodes, report>>

\* The composite call goes on awaiting a collaborator.
LabAwaits(c, r, position, got) ==
  /\ event' = [NoEvent EXCEPT !.task = c, !.req = r]
  /\ Awaits(c, position)
  /\ results' = got
  /\ UNCHANGED <<attempts, posts, num_switches, issue_area, ts_nodes, report>>

\* json of POST /labs and of POST /labs/{lab}/nodes.
LabData == [title |-> "title", description |-> "description"]

NodeData(label, node_definition) == [label |-> label, node_definition |-> node_definition]

\* --------------------------------------------------------------- create_router
\* Lines 1184-1192 with add_node in use: the value of add_node is returned.
CreateRouterAfterAdd(c, r) == LabReturns(c, r, "create_router", AddNode(r), <<Result("add_node", "Router", AddNode(r))>>)

\* ------------------------------------------------------------------ delete_lab
\* "Lab {lab_id} deleted successfully"
LabDeleted == Text(<<"Lab", "{lab_id}", "deleted", "successfully">>)

\* f"Error deleting lab: {str(e)}"
ErrorDeletingLab == Text(<<"Error", "deleting", "lab:", "str(e)">>)

\* The lab is deleted whatever its state.
DeleteAfterLabNoStop(c, r) ==
  LabRequests(c, r, "d_delete", NoKwargs, <<Result("get_lab_details", "lab", IF r.kind = "return" THEN Got(<<>>, r.body) ELSE ErrorValue(<<"Error", "getting", "lab", "details:", "str(e)">>))>>)

\* Lines 303-308: the lab details; a lab in state STARTED is stopped first.
DeleteAfterLab(c, r) ==
  LET lab_details == GetLabDetails(r)
      got == <<Result("get_lab_details", "lab", IF r.kind = "return" THEN Got(<<>>, r.body) ELSE ErrorValue(<<"Error", "getting", "lab", "details:", "str(e)">>))>>
  IN IF lab_details.kind = "dict" /\ lab_details.state = "STARTED"
       THEN LabRequests(c, r, "d_stop", NoKwargs, got)
       ELSE LabRequests(c, r, "d_delete", NoKwargs, got)

\* Lines 306-308: the value of stop_lab is dropped and the lab is deleted.
DeleteAfterStop(c, r) == LabRequests(c, r, "d_delete", NoKwargs, Append(results, Result("stop_lab", "lab", StopLab(r))))

\* Lines 308-311: the answer of the DELETE.
DeleteAfterDelete(c, r) ==
  LET value == IF r.kind = "return" THEN LabDeleted ELSE ErrorDeletingLab
  IN LabReturns(c, r, "delete_lab", value, Append(results, Result("DELETE", "lab", value)))

\* -------------------------------------------------------------- create_ospf_lab
\* {"error": f"Error creating OSPF lab: {str(e)}"}
ErrorCreatingOspfLab == ErrorValue(<<"Error", "creating", "OSPF", "lab:", "str(e)">>)

\* Lines 1759-1767: the success value, with the id of the link.
OspfLabCreated(link_id) == [NoReturn EXCEPT !.status = "success", !.link_id = link_id, !.message = <<"Lab", "created", "with", "OSPF", "routing">>]

\* Lines 1699-1712: the answer of POST /labs.
OspfAfterLab(c, r) ==
  IF r.kind # "return" \/ r.body.kind # "dict"
    THEN LabReturns(c, r, "create_ospf_lab", ErrorCreatingOspfLab, Append(results, Result("POST", "lab", ErrorCreatingOspfLab)))
    ELSE IF FalsyId(r.body.id)
           THEN LabReturns(c, r, "create_ospf_lab", CreateLab(r), Append(results, Result("POST", "lab", CreateLab(r))))
           ELSE LabRequests(c, r, "o_router1", Kwargs(TRUE, NoHeaders, NodeData("Router1", "iosv")), Append(results, Result("POST", "lab", CreateLab(r))))

\* Lines 1712-1721: the value of create_router for a router; an error dict
\* ends the call, otherwise the next router is created or the two are linked.
OspfAfterRouter(c, r, label) ==
  LET got == Append(results, Result("create_router", label, AddNode(r)))
  IN IF AddNode(r).status = "error"
       THEN LabReturns(c, r, "create_ospf_lab", ErrorValue(<<"Failed", "to", "create", label>> \o AddNode(r).error), got)
       ELSE IF label = "Router1"
              THEN LabRequests(c, r, "o_router2", Kwargs(TRUE, NoHeaders, NodeData("Router2", "iosv")), got)
              ELSE LabAwaits(c, r, "o_link", got)

\* Lines 1740-1767: the value of configure_node is dropped; after the second
\* router the success value is returned.
OspfAfterConfigure(c, r, label) ==
  LET got == Append(results, Result("configure_node", label, ConfigureNode(r)))
  IN IF label = "Router1"
       THEN LabRequests(c, r, "o_config2", NoKwargs, got)
       ELSE LabReturns(c, r, "create_ospf_lab", OspfLabCreated(results[4].value.link_id), got)

\* --------------------------------------------------------------- create_stp_lab
\* {"error": f"Error creating STP lab: {str(e)}"}
ErrorCreatingStpLab == ErrorValue(<<"Error", "creating", "STP", "lab:", "str(e)">>)

\* Lines 1667-1674: the success value.
StpLabCreated == [NoReturn EXCEPT !.status = "success", !.message = <<"Created", "STP", "lab", "with", "{len(switches)}", "switches">>]

\* Lines 1562-1618: the names of the switches, in the order of creation.
SwitchNames == <<"SW1-Core", "SW2-Core", "SW3-Distribution", "SW4-Distribution", "SW5-Access", "SW6-Access">>

\* Lines 1562-1618: the number of switches created for num_switches: two,
\* two more if num_switches > 2, two more if num_switches > 4.
SwitchesOf(n) == 2 + (IF n > 2 THEN 2 ELSE 0) + (IF n > 4 THEN 2 ELSE 0)

\* Lines 1624-1665: the pairs of switches linked, in order, for len(switches).
LinksOf(len) ==
  (IF len >= 2 THEN << <<1, 2>> >> ELSE <<>>)
    \o (IF len >= 4 THEN << <<1, 3>>, <<1, 4>>, <<2, 3>>, <<2, 4>>, <<3, 4>> >> ELSE <<>>)
    \o (IF len >= 6 THEN << <<3, 5>>, <<3, 6>>, <<4, 5>>, <<4, 6>>, <<5, 6>> >> ELSE <<>>)

\* The results of the sub-operations named op.
ResultsOf(got, op) == SelectSeq(got, LAMBDA x : x.op = op)

\* switches and links as lines 1569-1665 build them from the results.
Switches(got) == [k \in 1..Len(ResultsOf(got, "create_switch_with_interfaces")) |-> ResultsOf(got, "create_switch_with_interfaces")[k].value.details.id]

Links(got) == [k \in 1..Len(ResultsOf(got, "link_nodes")) |-> ResultsOf(got, "link_nodes")[k].value.link_id]

\* Lines 1552-1562: the value of create_lab; an error dict is returned as it
\* is, otherwise the first switch is created.
StpAfterLab(c, r) ==
  IF CreateLab(r).status = "error"
    THEN LabReturns(c, r, "create_stp_lab", CreateLab(r), <<Result("create_lab", "lab", CreateLab(r))>>)
    ELSE LabRequests(c, r, "s_switch", Kwargs(TRUE, NoHeaders, NodeData(SwitchNames[1], "iosvl2")), <<Result("create_lab", "lab", CreateLab(r))>>)

\* Lines 1562-1625: the value of create_switch_with_interfaces; sw_result["node_id"]
\* raises KeyError on an error dict.  After the last switch the links are
\* made, or the call returns if there is none to make.
StpAfterSwitch(c, r) ==
  LET k == Len(Switches(results)) + 1
      got == Append(results, Result("create_switch_with_interfaces", SwitchNames[k], CreateSwitchWithInterfaces(r)))
  IN IF CreateSwitchWithInterfaces(r).status = "error"
       THEN LabReturns(c, r, "create_stp_lab", ErrorCreatingStpLab, got)
       ELSE IF k < SwitchesOf(num_switches)
              THEN LabRequests(c, r, "s_switch", Kwargs(TRUE, NoHeaders, NodeData(SwitchNames[k + 1], "iosvl2")), got)
              ELSE LabAwaits(c, r, "s_link", got)

\* ------------------------------------------------------------- troubleshoot_lab
\* {"error": f"Error troubleshooting lab: {str(e)}"}
ErrorTroubleshootingLab == ErrorValue(<<"Error", "troubleshooting", "lab:", "str(e)">>)

\* {"error": "No nodes found in the lab"}
NoNodesFound == ErrorValue(<<"No", "nodes", "found", "in", "the", "lab">>)

\* troubleshooting.report, returned at line 2332.
Report == [NoReturn EXCEPT !.status = "report"]

\* The issue_area arguments: None, the empty string, and names in both cases.
IssueAreas == { NoId, "", "ospf", "OSPF", "bgp", "vlans" }

\* str.lower()
Lower(s) == IF s = "OSPF" THEN "ospf" ELSE s

\* Lines 2305-2324: the method of troubleshooting called for issue_area.
Diagnosis(area) ==
  IF area = NoId \/ area = "" THEN "run_comprehensive_diagnostics"
  ELSE IF Lower(area) = "connectivity" THEN "diagnose_connectivity_issues"
  ELSE IF Lower(area) = "interfaces" THEN "diagnose_interface_issues"
  ELSE IF Lower(area) = "routing" THEN "diagnose_routing_issues"
  ELSE IF Lower(area) = "ospf" THEN "diagnose_ospf_issues"
  ELSE IF Lower(area) = "bgp" THEN "diagnose_bgp_issues"
  ELSE IF Lower(area) = "spanning-tree" THEN "diagnose_spanning_tree_issues"
  ELSE IF Lower(area) = "configuration" THEN "diagnose_configuration_issues"
  ELSE "run_comprehensive_diagnostics"

\* Lines 2290-2298: the node listing, asked for when no nodes were given;
\* lab_nodes.keys() raises on a value that is no object.
TroubleAfterNodes(c, r) ==
  IF r.kind # "return" \/ r.body.kind # "dict"
    THEN LabReturns(c, r, "troubleshoot_lab", ErrorTroubleshootingLab, results)
    ELSE IF r.body.items = <<>>
           THEN LabReturns(c, r, "troubleshoot_lab", NoNodesFound, results)
           ELSE /\ ts_nodes' = r.body.items
                /\ event' = [NoEvent EXCEPT !.task = c, !.req = r]
                /\ Awaits(c, "t_begin")
                /\ UNCHANGED <<attempts, posts, num_switches, results, issue_area, report>>

\* troubleshoot_lab returns value, with the report as it is then.
TroubleReturns(c, value, got, rep) ==
  /\ Leave(c, [NoEvent EXCEPT !.task = c, !.ret = value, !.made = [tool |-> "troubleshoot_lab", num_switches |-> num_switches, results |-> got, nodes |-> ts_nodes, report |-> rep]])
  /\ num_switches' = 0
  /\ results' = <<>>
  /\ issue_area' = NoId
  /\ ts_nodes' = <<>>
  /\ report' = <<>>

\* The loop ends at the first node whose diagnosis raises.
TroubleAfterDiagnosisAborts(c, ok) ==
  LET node_id == ts_nodes[Len(results) + 1]
      got == Append(results, Result(Diagnosis(issue_area), node_id, IF ok THEN Got(<<>>, OtherBody) ELSE ErrorValue(<<"node_error">>)))
      rep == Append(report, [name |-> node_id, status |-> IF ok THEN "done" ELSE "error"])
  IN IF ok /\ Len(got) < Len(ts_nodes)
       THEN /\ results' = got
            /\ report' = rep
            /\ issue_area' = Lower(issue_area)
            /\ event' = [NoEvent EXCEPT !.task = c]
            /\ Awaits(c, "t_node")
            /\ UNCHANGED <<attempts, posts, num_switches, ts_nodes>>
       ELSE TroubleReturns(c, IF ok THEN Report ELSE ErrorTroubleshootingLab, got, rep)

\* Lines 2301-2332: the diagnosis of a node has ended (ok) or raised; a
\* failure adds an error step to the report, and the loop goes on with the
\* next node; after the last one the report is returned.
TroubleAfterDiagnosis(c, ok) ==
  LET node_id == ts_nodes[Len(results) + 1]
      got == Append(results, Result(Diagnosis(issue_area), node_id, IF ok THEN Got(<<>>, OtherBody) ELSE ErrorValue(<<"node_error">>)))
      rep == Append(report, [name |-> node_id, status |-> IF ok THEN "done" ELSE "error"])
  IN IF Len(got) < Len(ts_nodes)
       THEN /\ results' = got
            /\ report' = rep
            /\ issue_area' = Lower(issue_area)
            /\ event' = [NoEvent EXCEPT !.task = c]
            /\ Awaits(c, "t_node")
            /\ UNCHANGED <<attempts, posts, num_switches, ts_nodes>>
       ELSE TroubleReturns(c, Report, got, rep)

\* ------------------------------------------------ the collaborators' answers
\* The routers are configured whatever link_nodes returned.
OspfLinkEndsGoesOn(c) ==
  /\ tpc[c] = "o_link"
  /\ MayResume(c)
  /\ \E link_result \in LinkNodesValues :
       LabRequests(c, NoResult, "o_config1", NoKwargs, Append(results, Result("link_nodes", "Router1-Router2", link_result)))
  /\ UNCHANGED <<token, defaultAuth, inflight, nodeVars, normVars, sessionVars, waitVars>>

\* link_nodes returns to create_ospf_lab (lines 1721-1740): an error dict
\* ends the call, otherwise Router1 is configured.
OspfLinkEnds(c) ==
  /\ tpc[c] = "o_link"
  /\ MayResume(c)
  /\ \E link_result \in LinkNodesValues :
       LET got == Append(results, Result("link_nodes", "Router1-Router2", link_result))
       IN IF link_result.status = "error"
            THEN LabReturns(c, NoResult, "create_ospf_lab", ErrorValue(<<"Failed", "to", "link", "routers:">> \o link_result.error), got)
            ELSE LabRequests(c, NoResult, "o_config1", NoKwargs, got)
  /\ UNCHANGED <<token, defaultAuth, inflight, nodeVars, normVars, sessionVars, waitVars>>

\* Lines 1625-1674: the value of a link_nodes call goes into links whatever
\* it is (link.get("link_id") is None for an error dict); after the last
\* link the success value is returned.
StpAfterLink(c, link) ==
  LET pairs == LinksOf(Len(Switches(results)))
      k == Len(Links(results)) + 1
      got == Append(results, Result("link_nodes", SwitchNames[pairs[k][1]] \o "-" \o SwitchNames[pairs[k][2]], link))
  IN IF k < Len(pairs)
       THEN LabAwaits(c, NoResult, "s_link", got)
       ELSE LabReturns(c, NoResult, "create_stp_lab", StpLabCreated, got)

\* link_nodes returns to create_stp_lab.
StpLinkEnds(c) ==
  /\ tpc[c] = "s_link"
  /\ MayResume(c)
  /\ \E link \in LinkNodesValues : StpAfterLink(c, link)
  /\ UNCHANGED <<token, defaultAuth, inflight, nodeVars, normVars, sessionVars, waitVars>>

\* troubleshooting.begin_troubleshooting returns a fresh report, or raises
\* (line 2298).
BeginTroubleshootingEnds(c) ==
  /\ tpc[c] = "t_begin"
  /\ MayResume(c)
  /\ \E ok \in BOOLEAN :
       IF ok
         THEN /\ report' = <<>>
              /\ event' = [NoEvent EXCEPT !.task = c]
              /\ Awaits(c, "t_node")
              /\ UNCHANGED <<attempts, posts, num_switches, results, issue_area, ts_nodes>>
         ELSE TroubleReturns(c, ErrorTroubleshootingLab, results, report)
  /\ UNCHANGED <<token, defaultAuth, inflight, nodeVars, normVars, sessionVars, waitVars>>

\* The diagnosis of a node returns or raises.
DiagnosisEnds(c) ==
  /\ tpc[c] = "t_node"
  /\ MayResume(c)
  /\ \E ok \in BOOLEAN : TroubleAfterDiagnosis(c, ok)
  /\ UNCHANGED <<token, defaultAuth, inflight, nodeVars, normVars, sessionVars, waitVars>>

\* ----------------------------------------------------------- initialize_client
\* f"Successfully authenticated with CML at {base_url} (SSL verification: {ssl_status})"
SuccessfullyAuthenticated == Text(<<"Successfully", "authenticated", "with", "CML", "at", "{base_url}">>)

\* f"Authentication failed: {str(e)}"
AuthenticationFailed == Text(<<"Authentication", "failed:", "str(e)">>)

\* f"Error connecting to CML: {str(e)}"
ErrorConnecting == Text(<<"Error", "connecting", "to", "CML:", "str(e)">>)

\* Lines 172-179: authenticate raised; an HTTPStatusError (a status that
\* raise_for_status rejects) and any other exception give different texts.
InitializeClientAfterRaise(c, r) ==
  Leave(c, [NoEvent EXCEPT !.task = c, !.req = r, !.ret = IF r.status = 0 THEN ErrorConnecting ELSE AuthenticationFailed])

\* Lines 161-171: authenticate returned the token; with the troubleshooting
\* modules imported, a ConsoleManager is made for the session in use.
InitializeClientAfterAuthenticate(c) ==
  /\ Leave(c, [NoEvent EXCEPT !.task = c, !.ret = SuccessfullyAuthenticated])
  /\ console_manager' = cml_auth
  /\ UNCHANGED cml_auth

\* request returns (kind "return") or raises (kind "raise"): its caller goes
\* on in the same step, up to its next await or its return.
RequestEnds(c, kind, status, body, auth) ==
  LET r == [kind |-> kind, status |-> status, body |-> body, sends |-> nSend[c], reauths |-> nReauth[c], authenticated |-> auth]
  IN /\ UNCHANGED <<normVars, sessionVars>>
     /\ CASE tpc[c] = "v1" -> CreateLinkAfterFirst(c, r) /\ UNCHANGED <<nodeVars, toolVars>>
          [] tpc[c] = "v2" -> CreateLinkAfterSecond(c, r) /\ UNCHANGED <<nodeVars, toolVars>>
          [] tpc[c] = "list_a" -> LinkNodesAfterListA(c, r) /\ UNCHANGED toolVars
          [] tpc[c] = "list_b" -> LinkNodesAfterListB(c, r) /\ UNCHANGED toolVars
          [] tpc[c] = "detail_a" -> LinkNodesAfterDetailA(c, r) /\ UNCHANGED toolVars
          [] tpc[c] = "detail_b" -> LinkNodesAfterDetailB(c, r) /\ UNCHANGED toolVars
          [] tpc[c] = "post" -> LinkNodesAfterPost(c, r) /\ UNCHANGED toolVars
          [] tpc[c] = "w_lab" -> WaitAfterLab(c, r) /\ UNCHANGED <<nodeVars, labVars>>
          [] tpc[c] = "w_nodes" -> WaitAfterNodes(c, r) /\ UNCHANGED <<nodeVars, labVars>>
          [] tpc[c] = "w_node" -> WaitAfterNode(c, r) /\ UNCHANGED <<nodeVars, labVars>>
          [] tpc[c] = "r_add" -> CreateRouterAfterAdd(c, r) /\ UNCHANGED <<nodeVars, waitVars>>
          [] tpc[c] = "d_lab" -> DeleteAfterLab(c, r) /\ UNCHANGED <<nodeVars, waitVars>>
          [] tpc[c] = "d_stop" -> DeleteAfterStop(c, r) /\ UNCHANGED <<nodeVars, waitVars>>
          [] tpc[c] = "d_delete" -> DeleteAfterDelete(c, r) /\ UNCHANGED <<nodeVars, waitVars>>
          [] tpc[c] = "o_lab" -> OspfAfterLab(c, r) /\ UNCHANGED <<nodeVars, waitVars>>
          [] tpc[c] = "o_router1" -> OspfAfterRouter(c, r, "Router1") /\ UNCHANGED <<nodeVars, waitVars>>
          [] tpc[c] = "o_router2" -> OspfAfterRouter(c, r, "Router2") /\ UNCHANGED <<nodeVars, waitVars>>
          [] tpc[c] = "o_config1" -> OspfAfterConfigure(c, r, "Router1") /\ UNCHANGED <<nodeVars, waitVars>>
          [] tpc[c] = "o_config2" -> OspfAfterConfigure(c, r, "Router2") /\ UNCHANGED <<nodeVars, waitVars>>
          [] tpc[c] = "s_lab" -> StpAfterLab(c, r) /\ UNCHANGED <<nodeVars, waitVars>>
          [] tpc[c] = "s_switch" -> StpAfterSwitch(c, r) /\ UNCHANGED <<nodeVars, waitVars>>
          [] tpc[c] = "t_nodes" -> TroubleAfterNodes(c, r) /\ UNCHANGED <<nodeVars, waitVars>>
          [] tpc[c] = "init" -> InitializeClientAfterRaise(c, r) /\ UNCHANGED <<nodeVars, toolVars>>
          [] OTHER -> DirectAfter(c, r) /\ UNCHANGED <<nodeVars, toolVars>>

\* ------------------------------------------------------ CMLAuth.authenticate
\* Lines 84-87: post the credentials and await the answer.  whence is the
\* call site in request ("first": line 105, "retry": line 124).
AuthenticateCall(c, whence) ==
  /\ pc' = [pc EXCEPT ![c] = "auth_post"]
  /\ site' = [site EXCEPT ![c] = whence]
  /\ inflight' = [inflight EXCEPT ![c] = Message("POST", AuthenticateEndpoint, defaultAuth, Credentials)]
  /\ authState' = [authState EXCEPT ![c] = "pending"]
  /\ running' = Nobody

\* Lines 89-90: store the stripped token and make it the default header.
StoreToken(text) ==
  /\ token' = Strip(text)
  /\ defaultAuth' = Bearer(token')

\* A failed authentication POST also forgets the token and the default header.
AuthPostRespForgetsToken(c) ==
  /\ pc[c] = "auth_post"
  /\ MayResume(c)
  /\ \E o \in AuthOutcomes :
       IF o.kind = "error" \/ RaiseForStatus(o.status)
         THEN /\ RequestEnds(c, "raise", o.status, OtherBody, "failed")
              /\ inflight' = [inflight EXCEPT ![c] = NoMessage]
              /\ token' = None
              /\ defaultAuth' = None
         ELSE /\ StoreToken(o.text)
              /\ pc' = [pc EXCEPT ![c] = "auth_ok"]
              /\ inflight' = [inflight EXCEPT ![c] = Message("GET", AuthOkEndpoint, defaultAuth', NoJson)]
              /\ running' = Nobody
              /\ event' = [NoEvent EXCEPT !.task = c, !.text = o.text]
              /\ UNCHANGED <<tpc, site, kw, nSend, nReauth, authState, authRet, attempts, posts, nodeVars, normVars, sessionVars, toolVars>>

\* Lines 88-94: the answer of the authentication POST.  A failure raises
\* out of authenticate and out of request; a success stores the token and
\* awaits GET /api/v0/authok, sent with the client's default headers.
AuthPostResp(c) ==
  /\ pc[c] = "auth_post"
  /\ MayResume(c)
  /\ \E o \in AuthOutcomes :
       IF o.kind = "error" \/ RaiseForStatus(o.status)
         THEN /\ RequestEnds(c, "raise", o.status, OtherBody, "failed")
              /\ inflight' = [inflight EXCEPT ![c] = NoMessage]
              /\ UNCHANGED <<token, defaultAuth>>
         ELSE /\ StoreToken(o.text)
              /\ pc' = [pc EXCEPT ![c] = "auth_ok"]
              /\ inflight' = [inflight EXCEPT ![c] = Message("GET", AuthOkEndpoint, defaultAuth', NoJson)]
              /\ running' = Nobody
              /\ event' = [NoEvent EXCEPT !.task = c, !.text = o.text]
              /\ UNCHANGED <<tpc, site, kw, nSend, nReauth, authState, authRet, attempts, posts, nodeVars, normVars, sessionVars, toolVars>>

\* authenticate returns self.token to its call site: in request, or in
\* initialize_client (line 161).
AuthenticateReturns(c, verified) ==
  IF tpc[c] = "init"
    THEN /\ InitializeClientAfterAuthenticate(c)
         /\ inflight' = [inflight EXCEPT ![c] = NoMessage]
         /\ UNCHANGED <<token, defaultAuth, nodeVars, normVars, toolVars>>
    ELSE /\ authRet' = [authRet EXCEPT ![c] = token]
         /\ authState' = [authState EXCEPT ![c] = IF verified THEN "ok" ELSE "unverified"]
         /\ pc' = [pc EXCEPT ![c] = IF site[c] = "first" THEN "attach" ELSE "attach2"]
         /\ running' = c
         /\ inflight' = [inflight EXCEPT ![c] = NoMessage]
         /\ event' = NoEvent
         /\ UNCHANGED <<token, defaultAuth, tpc, site, kw, nSend, nReauth, attempts, posts, nodeVars, normVars, sessionVars, toolVars>>

\* The authok check outside any try: its failure raises out of authenticate.
AuthOkRespNoCatch(c) ==
  /\ pc[c] = "auth_ok"
  /\ MayResume(c)
  /\ \E o \in Outcomes(AuthOkEndpoint) :
       IF o.kind = "error" \/ RaiseForStatus(o.status)
         THEN /\ RequestEnds(c, "raise", o.status, OtherBody, "failed")
              /\ inflight' = [inflight EXCEPT ![c] = NoMessage]
              /\ UNCHANGED <<token, defaultAuth>>
         ELSE AuthenticateReturns(c, TRUE)

\* Lines 93-100: the answer of GET /api/v0/authok; a failure is printed and
\* authenticate returns all the same.
AuthOkResp(c) ==
  /\ pc[c] = "auth_ok"
  /\ MayResume(c)
  /\ \E o \in Outcomes(AuthOkEndpoint) :
       AuthenticateReturns(c, ~(o.kind = "error" \/ RaiseForStatus(o.status)))

\* --------------------------------------------------------- CMLAuth.request
\* request sends without authenticating first.
ReqCheckNoAuth(c) ==
  /\ pc[c] = "check"
  /\ MayRun(c)
  /\ pc' = [pc EXCEPT ![c] = "attach"]
  /\ event' = NoEvent
  /\ UNCHANGED <<token, defaultAuth, running, tpc, site, kw, inflight, nSend, nReauth, authState, authRet, attempts, posts, nodeVars, normVars, sessionVars, toolVars>>

\* Lines 104-105: authenticate first if there is no token.
ReqCheck(c) ==
  /\ pc[c] = "check"
  /\ MayRun(c)
  /\ IF Falsy(token)
       THEN AuthenticateCall(c, "first")
       ELSE /\ pc' = [pc EXCEPT ![c] = "attach"]
            /\ UNCHANGED <<running, site, inflight, authState>>
  /\ event' = NoEvent
  /\ UNCHANGED <<token, defaultAuth, tpc, kw, nSend, nReauth, authRet, attempts, posts, nodeVars, normVars, sessionVars, toolVars>>

\* Lines 111-115 and line 125: the headers dict of kwargs (created when
\* absent) with Authorization set from the current token.
WithAuthorization(c) == Kwargs(TRUE, [(IF kw[c].hasHeaders THEN kw[c].headers ELSE NoHeaders) EXCEPT !.Authorization = Bearer(token)], kw[c].json)

\* Lines 111-115.
Attach(c) ==
  /\ pc[c] = "attach"
  /\ MayRun(c)
  /\ kw' = [kw EXCEPT ![c] = WithAuthorization(c)]
  /\ pc' = [pc EXCEPT ![c] = "send"]
  /\ event' = NoEvent
  /\ UNCHANGED <<token, defaultAuth, running, tpc, site, inflight, nSend, nReauth, authState, authRet, attempts, posts, nodeVars, normVars, sessionVars, toolVars>>

\* httpx merges the client's default headers with those of the request; the
\* request's own value wins.
OutboundAuthorization(c) == IF kw[c].hasHeaders /\ kw[c].headers.Authorization # None THEN kw[c].headers.Authorization ELSE defaultAuth

\* self.client.request(method, endpoint, **kwargs): the request leaves and
\* the task awaits the answer.
ClientRequest(c, next) ==
  /\ inflight' = [inflight EXCEPT ![c] = Message(Method(c), Endpoint(c), OutboundAuthorization(c), kw[c].json)]
  /\ nSend' = [nSend EXCEPT ![c] = @ + 1]
  /\ posts' = [posts EXCEPT ![c] = IF Endpoint(c) = LinksEndpoint THEN @ + 1 ELSE @]
  /\ pc' = [pc EXCEPT ![c] = next]
  /\ running' = Nobody
  /\ event' = NoEvent
  /\ UNCHANGED <<token, defaultAuth, tpc, site, kw, nReauth, authState, authRet, attempts, nodeVars, normVars, sessionVars, toolVars>>

\* Line 119.
Send(c) ==
  /\ pc[c] = "send"
  /\ MayRun(c)
  /\ ClientRequest(c, "resp1")

\* Every answer that raise_for_status rejects starts the re-authentication.
Resp1ReauthenticatesOnFailure(c) ==
  /\ pc[c] = "resp1"
  /\ MayResume(c)
  /\ \E o \in Answers(c) :
       IF o.kind = "http" /\ RaiseForStatus(o.status)
         THEN /\ AuthenticateCall(c, "retry")
              /\ nReauth' = [nReauth EXCEPT ![c] = @ + 1]
              /\ event' = [NoEvent EXCEPT !.status = o.status]
              /\ UNCHANGED <<token, defaultAuth, tpc, kw, nSend, authRet, attempts, posts, nodeVars, normVars, sessionVars, toolVars>>
         ELSE /\ IF o.kind = "error"
                   THEN RequestEnds(c, "raise", o.status, o.body, authState[c])
                   ELSE RequestEnds(c, "return", o.status, o.body, authState[c])
              /\ inflight' = [inflight EXCEPT ![c] = NoMessage]
              /\ UNCHANGED <<token, defaultAuth>>

\* Lines 119-132: the answer of the first send.  A 401 starts the
\* re-authentication; any other status goes through raise_for_status.
Resp1(c) ==
  /\ pc[c] = "resp1"
  /\ MayResume(c)
  /\ \E o \in Answers(c) :
       IF o.kind = "http" /\ o.status = Unauthorized
         THEN /\ AuthenticateCall(c, "retry")
              /\ nReauth' = [nReauth EXCEPT ![c] = @ + 1]
              /\ event' = [NoEvent EXCEPT !.status = o.status]
              /\ UNCHANGED <<token, defaultAuth, tpc, kw, nSend, authRet, attempts, posts, nodeVars, normVars, sessionVars, toolVars>>
         ELSE /\ IF o.kind = "error" \/ RaiseForStatus(o.status)
                   THEN RequestEnds(c, "raise", o.status, o.body, authState[c])
                   ELSE RequestEnds(c, "return", o.status, o.body, authState[c])
              /\ inflight' = [inflight EXCEPT ![c] = NoMessage]
              /\ UNCHANGED <<token, defaultAuth>>

\* The retry keeps the header of the first send.
Attach2Stale(c) ==
  /\ pc[c] = "attach2"
  /\ MayRun(c)
  /\ pc' = [pc EXCEPT ![c] = "send2"]
  /\ event' = NoEvent
  /\ UNCHANGED <<token, defaultAuth, running, tpc, site, kw, inflight, nSend, nReauth, authState, authRet, attempts, posts, nodeVars, normVars, sessionVars, toolVars>>

\* Line 125.
Attach2(c) ==
  /\ pc[c] = "attach2"
  /\ MayRun(c)
  /\ kw' = [kw EXCEPT ![c] = WithAuthorization(c)]
  /\ pc' = [pc EXCEPT ![c] = "send2"]
  /\ event' = NoEvent
  /\ UNCHANGED <<token, defaultAuth, running, tpc, site, inflight, nSend, nReauth, authState, authRet, attempts, posts, nodeVars, normVars, sessionVars, toolVars>>

\* Line 126.
Send2(c) ==
  /\ pc[c] = "send2"
  /\ MayRun(c)
  /\ ClientRequest(c, "resp2")

\* The answer of the retried send handled like the first one: a 401 starts
\* another re-authentication.
Resp2Again(c) ==
  /\ pc[c] = "resp2"
  /\ MayResume(c)
  /\ \E o \in Answers(c) :
       IF o.kind = "http" /\ o.status = Unauthorized /\ nSend[c] < 3
         THEN /\ AuthenticateCall(c, "retry")
              /\ nReauth' = [nReauth EXCEPT ![c] = @ + 1]
              /\ event' = [NoEvent EXCEPT !.status = o.status]
              /\ UNCHANGED <<token, defaultAuth, tpc, kw, nSend, authRet, attempts, posts, nodeVars, normVars, sessionVars, toolVars>>
         ELSE /\ IF o.kind = "error" \/ RaiseForStatus(o.status)
                   THEN RequestEnds(c, "raise", o.status, o.body, authState[c])
                   ELSE RequestEnds(c, "return", o.status, o.body, authState[c])
              /\ inflight' = [inflight EXCEPT ![c] = NoMessage]
              /\ UNCHANGED <<token, defaultAuth>>

\* Lines 126-132: the answer of the retried send goes through
\* raise_for_status whatever its status.
Resp2(c) ==
  /\ pc[c] = "resp2"
  /\ MayResume(c)
  /\ \E o \in Answers(c) :
       /\ IF o.kind = "error" \/ RaiseForStatus(o.status)
            THEN RequestEnds(c, "raise", o.status, o.body, authState[c])
            ELSE RequestEnds(c, "return", o.status, o.body, authState[c])
       /\ inflight' = [inflight EXCEPT ![c] = NoMessage]
       /\ UNCHANGED <<token, defaultAuth>>

\* ------------------------------------------------------------------- tools
\* The guard is never taken.
InitializedAlways == TRUE

\* if not cml_auth: the first statement of every tool that uses the session.
Initialized == cml_auth # 0

\* "Error: You must initialize the client first with initialize_client()"
MustInitializeText == Text(<<"Error:", "You", "must", "initialize", "the", "client", "first", "with", "initialize_client()">>)

\* {"error": "You must initialize the client first with initialize_client()"}
MustInitializeError == ErrorValue(<<"You", "must", "initialize", "the", "client", "first", "with", "initialize_client()">>)

\* {"error": "Troubleshooting tools not initialized or CML client not authenticated"}
TroubleshootingNotInitialized == ErrorValue(<<"Troubleshooting", "tools", "not", "initialized", "or", "CML", "client", "not", "authenticated">>)

\* The tool returns value at its first statement: nothing else happens.
ReturnsAtOnce(c, tool, value) ==
  /\ event' = [NoEvent EXCEPT !.task = c, !.ret = value, !.made = [NoMade EXCEPT !.tool = tool]]
  /\ UNCHANGED <<token, defaultAuth, running, tpc, pc, site, kw, inflight, nSend, nReauth, authState, authRet, attempts, posts, nodeVars, normVars, sessionVars, toolVars>>

\* A task is started: a collaborator holding cml_auth calls
\* request(method, endpoint, **kwargs).
StartRequest(c) ==
  /\ running = Nobody
  /\ tpc[c] = "idle"
  /\ Initialized
  /\ \E k \in CallerKwargs : EnterRequest(c, "call", k)
  /\ event' = NoEvent
  /\ UNCHANGED <<token, defaultAuth, inflight, attempts, posts, nodeVars, normVars, sessionVars, toolVars>>

\* A task is started: create_link_v3(lab_id, interface_id_a, interface_id_b),
\* lines 713-735, up to the request of the {i1, i2} variant.
StartCreateLink(c) ==
  /\ running = Nobody
  /\ tpc[c] = "idle"
  /\ IF ~Initialized
       THEN ReturnsAtOnce(c, "create_link_v3", MustInitializeError)
       ELSE /\ EnterRequest(c, "v1", Kwargs(FALSE, NoHeaders, link_data_1))
            /\ event' = NoEvent
            /\ UNCHANGED <<token, defaultAuth, inflight, attempts, posts, nodeVars, normVars, sessionVars, toolVars>>

\* A task is started: link_nodes(lab_id, node_id_a, node_id_b) with the
\* client initialized, lines 803-817, up to the request of the listing of
\* node A.
StartLinkNodes(c) ==
  /\ running = Nobody
  /\ tpc[c] = "idle"
  /\ IF ~Initialized
       THEN ReturnsAtOnce(c, "link_nodes", MustInitializeError)
       ELSE /\ EnterRequest(c, "list_a", NoKwargs)
            /\ event' = NoEvent
            /\ node_id_b' \in NodeIds
            /\ UNCHANGED <<token, defaultAuth, inflight, attempts, posts, interfaces_a, interfaces_b, fetched, seen, src_interface_id, dst_interface_id, normVars, sessionVars, toolVars>>

\* A task is started: wait_for_lab_nodes(lab_id, timeout) with the client
\* initialized, lines 1040-1042, up to the request of get_lab_details.
StartWaitForLabNodes(c) ==
  /\ running = Nobody
  /\ tpc[c] = "idle"
  /\ IF ~Initialized
       THEN ReturnsAtOnce(c, "wait_for_lab_nodes", MustInitializeText)
       ELSE /\ \E t \in Timeouts : timeout' = t
            /\ EnterRequest(c, "w_lab", NoKwargs)
            /\ event' = NoEvent
            /\ UNCHANGED <<token, defaultAuth, inflight, attempts, posts, nodeVars, normVars, sessionVars, labVars, nodes, elapsed, all_ready, sampled, listings, samples, sleeps, rounds>>

\* A task is started: create_router(lab_id, label) with the client
\* initialized, up to the request of add_node (lines 1184-1192, 420-458).
StartCreateRouter(c) ==
  /\ running = Nobody
  /\ tpc[c] = "idle"
  /\ IF ~Initialized
       THEN ReturnsAtOnce(c, "create_router", MustInitializeError)
       ELSE /\ EnterRequest(c, "r_add", Kwargs(TRUE, NoHeaders, NodeData("Router", "iosv")))
            /\ event' = NoEvent
            /\ UNCHANGED <<token, defaultAuth, inflight, attempts, posts, nodeVars, normVars, sessionVars, toolVars>>

\* delete_lab(lab_id), lines 298-303, up to the request of get_lab_details.
StartDeleteLab(c) ==
  /\ running = Nobody
  /\ tpc[c] = "idle"
  /\ IF ~Initialized
       THEN ReturnsAtOnce(c, "delete_lab", MustInitializeText)
       ELSE /\ EnterRequest(c, "d_lab", NoKwargs)
            /\ event' = NoEvent
            /\ UNCHANGED <<token, defaultAuth, inflight, attempts, posts, nodeVars, normVars, sessionVars, toolVars>>

\* create_ospf_lab(), lines 1694-1703, up to POST /labs.
StartCreateOspfLab(c) ==
  /\ running = Nobody
  /\ tpc[c] = "idle"
  /\ IF ~Initialized
       THEN ReturnsAtOnce(c, "create_ospf_lab", MustInitializeError)
       ELSE /\ EnterRequest(c, "o_lab", Kwargs(FALSE, NoHeaders, LabData))
            /\ event' = NoEvent
            /\ UNCHANGED <<token, defaultAuth, inflight, attempts, posts, nodeVars, normVars, sessionVars, toolVars>>

\* create_stp_lab(title, description, num_switches), lines 1547-1552, up to
\* the request of create_lab.
StartCreateStpLab(c) ==
  /\ running = Nobody
  /\ tpc[c] = "idle"
  /\ IF ~Initialized
       THEN ReturnsAtOnce(c, "create_stp_lab", MustInitializeError)
       ELSE /\ \E n \in 0..MaxSwitches : num_switches' = n
            /\ EnterRequest(c, "s_lab", Kwargs(FALSE, NoHeaders, LabData))
            /\ event' = NoEvent
            /\ UNCHANGED <<token, defaultAuth, inflight, attempts, posts, nodeVars, normVars, sessionVars, waitVars, results, issue_area, ts_nodes, report>>

\* troubleshoot_lab(lab_id, nodes, issue_area) with the troubleshooting
\* tools initialized, lines 2284-2298: the node listing is requested when no
\* nodes are given.
StartTroubleshootLab(c) ==
  /\ running = Nobody
  /\ tpc[c] = "idle"
  /\ IF console_manager = 0 \/ ~Initialized
       THEN ReturnsAtOnce(c, "troubleshoot_lab", TroubleshootingNotInitialized)
       ELSE /\ \E n \in 0..MaxNodes, area \in IssueAreas :
                 /\ ts_nodes' = NodeList(n)
                 /\ issue_area' = area
                 /\ IF n = 0 THEN EnterRequest(c, "t_nodes", NoKwargs) ELSE Awaits(c, "t_begin")
            /\ event' = NoEvent
            /\ UNCHANGED <<token, defaultAuth, inflight, attempts, posts, nodeVars, normVars, sessionVars, waitVars, num_switches, results, report>>

\* initialize_client(base_url, username, password, verify_ssl), lines
\* 151-161: a new CMLAuth object (no token, a client without default
\* headers) replaces the global cml_auth, and its authenticate is awaited.
\* The call is made while no tool call is in flight on the object replaced.
StartInitializeClient(c) ==
  /\ running = Nobody
  /\ \A d \in Tasks : tpc[d] = "idle"
  /\ cml_auth < MaxSessions
  /\ cml_auth' = cml_auth + 1
  /\ UNCHANGED console_manager
  /\ token' = None
  /\ defaultAuth' = None
  /\ tpc' = [tpc EXCEPT ![c] = "init"]
  /\ pc' = [pc EXCEPT ![c] = "auth_post"]
  /\ inflight' = [inflight EXCEPT ![c] = Message("POST", AuthenticateEndpoint, None, Credentials)]
  /\ authState' = [authState EXCEPT ![c] = "pending"]
  /\ running' = Nobody
  /\ event' = NoEvent
  /\ UNCHANGED <<site, kw, nSend, nReauth, authRet, attempts, posts, nodeVars, normVars, toolVars>>

\* ----------------------------------------------------------- specification
\* One step of CMLAuth.request or of the authenticate it calls.
RequestStep(c) ==
  \/ ReqCheck(c)
  \/ AuthPostResp(c)
  \/ AuthOkResp(c)
  \/ Attach(c)
  \/ Send(c)
  \/ Resp1(c)
  \/ Attach2(c)
  \/ Send2(c)
  \/ Resp2(c)

\* Tasks calling request directly, interleaved at their awaits.
Next == \E c \in Tasks : StartRequest(c) \/ RequestStep(c)

Spec == Init /\ [][Next]_vars

\* Task "t1" running create_link_v3 while "t2" calls request directly.
NextLink == StartCreateLink("t1") \/ StartRequest("t2") \/ \E c \in Tasks : RequestStep(c)

SpecLink == Init /\ [][NextLink]_vars

\* Tasks calling initialize_client and request, "t1" also create_router.
NextSession ==
  \/ \E c \in Tasks : StartInitializeClient(c) \/ StartRequest(c) \/ RequestStep(c)
  \/ StartCreateRouter("t1")

SpecSession == Init /\ [][NextSession]_vars

\* Task "t1" from the start of the process: initialize_client, and the
\* tools whether or not the client has been initialized.
NextProcess ==
  \/ StartInitializeClient("t1")
  \/ StartCreateLink("t1")
  \/ StartWaitForLabNodes("t1")
  \/ StartCreateRouter("t1")
  \/ StartDeleteLab("t1")
  \/ RequestStep("t1")
  \/ SleepEnds("t1")

SpecProcess == InitProcess /\ [][NextProcess]_vars

\* Task "t1" running link_nodes.
NextNodes == StartLinkNodes("t1") \/ RequestStep("t1")

SpecNodes == Init /\ [][NextNodes]_vars

\* Task "t1" running wait_for_lab_nodes.
NextWait == StartWaitForLabNodes("t1") \/ RequestStep("t1") \/ SleepEnds("t1")

SpecWait == Init /\ [][NextWait]_vars

\* The same with every request answered and every sleep ending: the event
\* loop resumes a task whose await has completed.
SpecWaitFair == Init /\ [][NextWait]_vars /\ WF_vars(RequestStep("t1")) /\ WF_vars(SleepEnds("t1"))

\* Task "t1" running a tool made of other tools, or link_nodes.
NextLabs ==
  \/ StartLinkNodes("t1")
  \/ StartCreateRouter("t1")
  \/ StartDeleteLab("t1")
  \/ StartCreateOspfLab("t1")
  \/ StartCreateStpLab("t1")
  \/ StartTroubleshootLab("t1")
  \/ RequestStep("t1")
  \/ OspfLinkEnds("t1")
  \/ StpLinkEnds("t1")
  \/ BeginTroubleshootingEnds("t1")
  \/ DiagnosisEnds("t1")

SpecLabs == InitLabs /\ [][NextLabs]_vars

\* The three readers of the interface listing, each handed the same decoded
\* answer.
InitNorm == InitSession /\ raw \in RawResponses

NextNorm == GetNodeInterfacesReturns \/ GetPhysicalInterfacesReads \/ LinkNodesReads

SpecNorm == InitNorm /\ [][NextNorm]_vars

\* ------------------------------------------------------------------ claims
\* The request call that ended in the last step, if one did.
Ended == event.req.kind # "none"

\* C1 as stated: when the first response of a request call is 401, the call
\* re-authenticates exactly once and re-sends its request exactly once; a
\* second 401 is raised with no third send and no second re-authentication.
C1_ResendsExactlyOnce ==
  /\ \A c \in Tasks : nSend[c] <= 2 /\ nReauth[c] <= 1
  /\ Ended => /\ event.req.reauths >= 1 => event.req.reauths = 1 /\ event.req.sends = 2
              /\ event.req.sends = 2 /\ event.req.status = Unauthorized => event.req.kind = "raise"

\* C1 amended: when the first response of a request call is 401, the call
\* attempts re-authentication exactly once; if it succeeds the request is
\* re-sent exactly once, if it fails the call raises without re-sending; a
\* second 401 is raised; no call sends its request more than twice or
\* re-authenticates more than once.
C1_RetryOnce ==
  /\ \A c \in Tasks : nSend[c] <= 2 /\ nReauth[c] <= 1 /\ (nSend[c] = 2 => nReauth[c] = 1)
  /\ Ended => /\ event.req.reauths <= 1 /\ event.req.sends <= 2
              /\ event.req.reauths = 0 => event.req.sends <= 1
              /\ event.req.reauths = 1 /\ event.req.authenticated # "failed" => event.req.sends = 2
              /\ event.req.reauths = 1 /\ event.req.authenticated = "failed" => event.req.sends = 1 /\ event.req.kind = "raise"
              /\ event.req.sends = 2 /\ event.req.status = Unauthorized => event.req.kind = "raise"

\* A call whose first and retried responses were both 401 has just raised.
C1_Witness == Ended /\ event.req.kind = "raise" /\ event.req.sends = 2 /\ event.req.reauths = 1 /\ event.req.status = Unauthorized /\ event.req.authenticated # "failed"

\* The step in which task c puts its request on the wire (line 119 or 126).
Sends(c) == pc[c] \in {"send", "send2"} /\ pc'[c] \in {"resp1", "resp2"}

\* C2: every request sent by request carries 'Bearer ' + the token stored at
\* that moment, whatever Authorization header the caller supplied; before the
\* retried send the header is set again from the token then stored, so the
\* retry does not keep the header of the rejected send.
C2_CarriesCurrentToken ==
  [][\A c \in Tasks :
       /\ Sends(c) => inflight'[c].auth = Bearer(token) /\ inflight'[c].auth # CallerAuthorization
       /\ pc[c] = "attach2" /\ pc'[c] = "send2" => kw'[c].headers.Authorization = Bearer(token)
       /\ pc[c] = "send2" /\ Sends(c) => inflight'[c].auth = Bearer(authRet[c])]_vars

\* A retried request is on the wire, carrying the token stored by the
\* re-authentication.
C2_Witness == \E c \in Tasks : pc[c] = "resp2" /\ nSend[c] = 2 /\ inflight[c].auth = Bearer(token) /\ authRet[c] = token

\* C3: a request call that finds no token authenticates, and sends its request
\* only after that authentication succeeded; if it fails the request is not
\* sent.  No request to another endpoint than authenticate is on the wire
\* while the session never had a token.
C3_AuthenticatesFirst ==
  /\ \A c \in Tasks : pc[c] \in {"attach", "send"} /\ authState[c] = "no" => ~Falsy(token)
  /\ \A c \in Tasks : pc[c] \in {"attach", "send", "resp1"} /\ authState[c] # "no" => authState[c] \in {"ok", "unverified"} /\ authRet[c] # None
  /\ \A c \in Tasks : inflight[c].endpoint \notin {"None", AuthenticateEndpoint} => token # None /\ inflight[c].auth # Bearer(None)
  /\ Ended /\ event.req.reauths = 0 /\ event.req.authenticated = "failed" => event.req.sends = 0 /\ event.req.kind = "raise"

\* A request is on the wire after the call authenticated first.
C3_Witness == \E c \in Tasks : pc[c] = "resp1" /\ nReauth[c] = 0 /\ authState[c] \in {"ok", "unverified"} /\ inflight[c].endpoint = LabsEndpoint

\* C4: between reading the token into the Authorization header and sending
\* the request, no other call replaces the token: a task about to send holds a
\* header made of the token stored now, also while other calls are suspended
\* in a (re-)authentication.
C4_NoSupersededToken ==
  \A c \in Tasks : pc[c] \in {"send", "send2"} => kw[c].hasHeaders /\ kw[c].headers.Authorization = Bearer(token)

\* One call is about to send while another one awaits the answer of its
\* re-authentication.
C4_Witness == \E c, d \in Tasks : c # d /\ pc[c] \in {"send", "send2"} /\ pc[d] = "auth_post" /\ site[d] = "retry"

\* t is text without its leading and trailing quote characters.
IsStripped(text, t) ==
  /\ t # <<>> => Head(t) # Quote /\ t[Len(t)] # Quote
  /\ \E i, j \in 0..Len(text) : text = Quotes(i) \o t \o Quotes(j)

\* C5: the step that handles a successful authentication response stores the
\* response text stripped of its surrounding quotes and sets the default
\* Authorization header to 'Bearer ' + that token; whenever the session has a
\* token the default header is 'Bearer ' + the token, under every interleaving.
C5_TokenAndDefaultHeader ==
  [][/\ \A c \in Tasks : pc[c] = "auth_post" /\ pc'[c] = "auth_ok" => IsStripped(event'.text, token') /\ defaultAuth' = Bearer(token') /\ inflight'[c].auth = Bearer(token')
     /\ token' # None => defaultAuth' = Bearer(token')
     /\ token' = None => defaultAuth' = None]_vars

\* A response text with two quotes on each side of a non-empty token has
\* just been stored.
C5_Witness == event.text # None /\ token # <<>> /\ event.text = Quotes(2) \o token \o Quotes(2) /\ defaultAuth = Bearer(token)

\* C6: a request call returns a response only if its final response is 2xx;
\* a final response of any other status is raised.
C6_ReturnsOnly2xx ==
  Ended /\ event.req.kind = "return" => event.req.status >= 200 /\ event.req.status < 300 /\ event.req.sends \in {1, 2}

\* A retried request answered 302 has just been raised.
C6_Witness == Ended /\ event.req.kind = "raise" /\ event.req.status = 302 /\ event.req.sends = 2

\* C7: whatever the answer of GET /api/v0/authok, authenticate returns: the
\* step that handles the answer leaves the token and the default header as
\* stored and hands the token to the caller, which goes on to send.
C7_AuthOkBestEffort ==
  [][\A c \in Tasks : pc[c] = "auth_ok" /\ pc'[c] # "auth_ok" =>
       /\ token' = token /\ defaultAuth' = defaultAuth /\ defaultAuth' = Bearer(token')
       /\ authRet'[c] = token
       /\ authState'[c] \in {"ok", "unverified"}
       /\ pc'[c] \in {"attach", "attach2"}]_vars

\* A request is on the wire with the token of an authentication whose authok
\* check failed.
C7_Witness == \E c \in Tasks : authState[c] = "unverified" /\ pc[c] \in {"resp1", "resp2"} /\ authRet[c] = token /\ inflight[c].auth = Bearer(token) /\ defaultAuth = Bearer(token)

\* A create_link_v3 call returned in the last step.
LinkReturned == event.ret.status \in {"success", "error"}

\* Number of payload variants that were answered with a link id.
IdCount(tried) == Cardinality({v \in DOMAIN tried : tried[v] = "id"})

\* C8: create_link_v3 posts {i1, i2} before {src_int, dst_int} and posts
\* nothing after an answer with a link id: a {i1, i2} payload is sent only
\* while no variant has ended, a {src_int, dst_int} payload only after the
\* first variant ended without an id, and a call that returns success had
\* exactly one answer with an id, the last one, whose id it returns.
C8_OrderedStopAtFirstId ==
  [][\A c \in Tasks :
       /\ Sends(c) /\ inflight'[c].endpoint = LinksEndpoint =>
            /\ inflight'[c].method = "POST"
            /\ tpc[c] = "v1" => inflight'[c].json = link_data_1 /\ attempts[c] = NoAttempts
            /\ tpc[c] = "v2" => inflight'[c].json = link_data_2 /\ attempts[c].i1i2 \in {"noid", "raised"} /\ attempts[c].srcdst = "none"
       /\ event'.task = c /\ event'.ret.status = "success" =>
            /\ IdCount(event'.attempts) = 1
            /\ event'.attempts.i1i2 = "id" => event'.attempts.srcdst = "none" /\ tpc[c] = "v1"
            /\ event'.ret.link_id = event'.req.body.id /\ ~FalsyId(event'.ret.link_id)]_vars

\* create_link_v3 has just returned the id of the {i1, i2} answer, the second
\* variant never tried.
C8_Witness == event.ret.status = "success" /\ event.attempts = [i1i2 |-> "id", srcdst |-> "none"] /\ event.ret.link_id = "L1"

\* C9: when the request of the first variant ends without a link id (it
\* raised, or returned a 2xx answer with no usable id), create_link_v3 goes on
\* to the request of the second variant in the same step and returns nothing
\* yet; when the second variant is answered with an id the call returns
\* success with that id.
C9_SecondVariantAlwaysTried ==
  [][\A c \in Tasks :
       /\ tpc[c] = "v1" /\ event'.task = c /\ event'.req.kind # "none" /\ AttemptOutcome(event'.req) # "id" =>
            /\ tpc'[c] = "v2" /\ pc'[c] = "check" /\ kw'[c].json = link_data_2
            /\ event'.ret = NoReturn
            /\ attempts'[c].i1i2 \in {"noid", "raised"}
       /\ tpc[c] = "v2" /\ event'.task = c /\ event'.req.kind # "none" /\ AttemptOutcome(event'.req) = "id" =>
            event'.ret = Success(event'.req.body.id) /\ event'.attempts.srcdst = "id"]_vars

\* create_link_v3 has just returned the id of the second variant after the
\* first one raised.
C9_Witness == event.ret.status = "success" /\ event.attempts = [i1i2 |-> "raised", srcdst |-> "id"] /\ event.ret.link_id = "L2"

\* The error message contains the field names of a payload variant.
Names(error, json) == \A f \in DOMAIN json : \E i \in 1..Len(error) : error[i] = f

\* Both payload variants were tried and neither was answered with an id.
BothRejected(tried) == tried.i1i2 \in {"noid", "raised"} /\ tried.srcdst \in {"noid", "raised"}

SecondVariantSucceeded == event.ret.status = "success" /\ event.attempts.i1i2 \in {"noid", "raised"} /\ event.attempts.srcdst = "id"

\* C11 as stated: when the first payload variant is rejected and the second
\* is accepted, the value create_link_v3 returns records, besides the link
\* id, that the first variant was attempted and failed: its error or message
\* names the {i1, i2} variant, or its details hold more than the answer of
\* the second request.
C11_RecordsFirstFailure ==
  SecondVariantSucceeded => (Names(event.ret.error, link_data_1) \/ Names(event.ret.message, link_data_1) \/ event.ret.details # event.req.body)

\* C11 amended: when the first payload variant is rejected and the second is
\* accepted, create_link_v3 returns the link id of the second answer, the
\* fixed message, status success and that answer as details, which is the very
\* value a success of the first variant returns; nothing in it tells that the
\* first variant failed.
C11_SecondSuccessLikeFirst ==
  SecondVariantSucceeded => (event.ret = Success(event.req.body.id) /\ event.ret.details = event.req.body /\ ~Names(event.ret.error, link_data_1) /\ ~Names(event.ret.message, link_data_1))

C11_Witness == SecondVariantSucceeded /\ event.attempts.i1i2 = "noid" /\ event.ret.link_id = "L1" /\ event.ret.details = [kind |-> "dict", id |-> "L1"]
\* An interface detail that says physical and not connected.
PhysicalAndFree(d) == d.type = "physical" /\ ~d.is_connected

\* A listing without any interface: null, or an empty array, object or string.
ListsNothing(body) == body.kind = "null" \/ (body.kind \in {"list", "dict"} /\ body.items = <<>>) \/ (body.kind = "str" /\ body.text = <<>>)

\* The error value names the node.
NamesNode(value, node_id) == value.status = "error" /\ \E i \in 1..Len(value.error) : value.error[i] = node_id

NodeId(node) == IF node = "a" THEN node_id_a ELSE node_id_b

\* C12: link_nodes fails fast.  A request is sent to the links endpoint only
\* with an interface found for each node; when the listing of a node holds no
\* interface, or the loop over the interfaces of a node ends with no detail
\* that is physical and not connected, the call returns an error value naming
\* a node without such an interface, having sent no request to the links
\* endpoint.
C12_FailsFast ==
  [][\A c \in Tasks :
       /\ (tpc[c] = "post" /\ Sends(c)) => (src_interface_id # None /\ dst_interface_id # None /\ inflight'[c].endpoint = LinksEndpoint)
       /\ (tpc[c] = "list_b" /\ event'.task = c /\ event'.req.kind = "return" /\ (ListsNothing(interfaces_a) \/ ListsNothing(event'.req.body)))
            => /\ tpc'[c] = "idle"
               /\ posts[c] = 0
               /\ \/ ListsNothing(interfaces_a) /\ NamesNode(event'.ret, node_id_a)
                  \/ ListsNothing(event'.req.body) /\ NamesNode(event'.ret, node_id_b)
       /\ (tpc[c] \in {"detail_a", "detail_b"} /\ event'.task = c /\ event'.node # "none" /\ \A k \in 1..Len(event'.described) : ~PhysicalAndFree(event'.described[k]))
            => /\ tpc'[c] = "idle"
               /\ posts[c] = 0
               /\ NamesNode(event'.ret, NodeId(event'.node))
               /\ event'.fetched = (IF event'.node = "a" THEN interfaces_a ELSE interfaces_b).items
  ]_vars

C12_Witness == event.task = "t1" /\ event.node = "b" /\ event.ret = NoAvailableInterface(node_id_b) /\ Len(event.described) = 2 /\ tpc["t1"] = "idle"

\* C14: for each node, the interface link_nodes selects is the first one in
\* list order whose detail is physical and not connected: the details are
\* requested in list order, none before the selected one is physical and not
\* connected, and when none of the listing is, the result is "no available
\* physical interface found" for that node.
C14_FirstPhysicalFree ==
  [][\A c \in Tasks :
       (event'.task = c /\ event'.node # "none") =>
         LET items == (IF event'.node = "a" THEN interfaces_a ELSE interfaces_b).items
             n == Len(event'.described)
         IN /\ tpc[c] = (IF event'.node = "a" THEN "detail_a" ELSE "detail_b")
            /\ n >= 1 /\ n <= Len(items)
            /\ event'.fetched = SubSeq(items, 1, n)
            /\ \A k \in 1..(n - 1) : ~PhysicalAndFree(event'.described[k])
            /\ IF PhysicalAndFree(event'.described[n])
                 THEN /\ event'.ret = NoReturn
                      /\ (IF event'.node = "a" THEN src_interface_id' ELSE dst_interface_id') = items[n]
                 ELSE /\ n = Len(items)
                      /\ event'.ret = NoAvailableInterface(NodeId(event'.node))
  ]_vars

C14_Witness == event.node = "a" /\ src_interface_id = InterfaceId(3) /\ event.described = <<Detail("loopback", NoId, FALSE), Detail("physical", "0", TRUE), Detail("physical", "0", FALSE)>> /\ tpc["t1"] = "detail_b"

\* C15: the search short-circuits.  Once the detail fetched for an interface
\* of a node is physical and not connected, link_nodes requests no further
\* detail for that node: the details requested for the node are those of the
\* interfaces up to that one (two of them for the listing [A connected,
\* B free, C]), and the call never comes back to the loop of a node it left.
C15_ShortCircuit ==
  [][\A c \in Tasks :
       /\ (tpc[c] \in {"detail_a", "detail_b"} /\ event'.task = c /\ event'.req.kind = "return" /\ PhysicalAndFree(event'.req.body))
            => /\ tpc'[c] # tpc[c]
               /\ event'.node # "none" => event'.fetched = fetched
               /\ Len(fetched) = Len(seen) + 1
               /\ fetched = SubSeq((IF tpc[c] = "detail_a" THEN interfaces_a ELSE interfaces_b).items, 1, Len(fetched))
       /\ (tpc[c] \in {"detail_b", "post"}) => tpc'[c] # "detail_a"
       /\ (tpc[c] = "post") => tpc'[c] # "detail_b"
  ]_vars

C15_Witness == event.node = "a" /\ tpc["t1"] = "detail_b" /\ interfaces_a = ListBody(IdList(3)) /\ event.fetched = IdList(2) /\ event.described = <<Detail("physical", "0", TRUE), Detail("physical", "0", FALSE)>> /\ src_interface_id = InterfaceId(2)

\* C13 as stated: link_nodes creates the link as create_link_v3 does, by the
\* same ordered sequence of payload variants: its first request to the links
\* endpoint carries {i1, i2}, and it reports that the link could not be
\* created only after {i1, i2} and {src_int, dst_int} were both rejected, so
\* that it succeeds whenever create_link_v3 would.
C13_SameVariantsAsCreateLink ==
  /\ \A c \in Tasks : (tpc[c] = "post" /\ inflight[c].endpoint = LinksEndpoint /\ attempts[c].i1i2 = "none") => DOMAIN inflight[c].json = DOMAIN link_data_1
  /\ (event.ret.status = "error" /\ event.attempts # NoAttempts) => BothRejected(event.attempts)
\* The interface kind as the detail tells it: its type member when it has
\* one, else physical exactly when it has a slot member.
KindPhysical(d) == IF d.type # NoId THEN d.type = "physical" ELSE d.slot # NoId

\* C16 as stated: the kind inference (an explicit type is trusted, a detail
\* without type is physical exactly when it has a slot) is the test of the
\* get_physical_interfaces filter and of the link_nodes selection, so that
\* link_nodes selects a not connected interface whose detail has a slot and
\* no type.
C16_KindInference ==
  [][/\ \A d \in InterfaceDetails : is_physical(d) = KindPhysical(d)
     /\ \A c \in Tasks :
          (tpc[c] \in {"detail_a", "detail_b"} /\ event'.task = c /\ event'.req.kind = "return" /\ KindPhysical(event'.req.body) /\ ~event'.req.body.is_connected /\ (tpc[c] = "detail_b" \/ interfaces_b.kind = "list"))
            => /\ event'.node # "none"
               /\ (IF tpc[c] = "detail_a" THEN src_interface_id' ELSE dst_interface_id') = fetched[Len(fetched)]
  ]_vars

\* What a reader made of the answer, once it has read it.
Read(reader) == out[reader] # NoRaw

\* C17: a string whose length is a multiple of 36 becomes, in
\* get_node_interfaces and in get_physical_interfaces, the sequence of its
\* len/36 chunks of 36 characters, in order: their concatenation is the
\* string (the empty string gives the empty sequence).
C17_ChunksOfIdWidth ==
  (raw.kind = "str" /\ Len(raw.text) % IdWidth = 0) =>
    \A reader \in {"node", "physical"} :
      Read(reader) => /\ out[reader].kind = "list"
                    /\ Len(out[reader].items) * IdWidth = Len(raw.text)
                    /\ \A k \in 1..Len(out[reader].items) : Len(out[reader].items[k]) = IdWidth
                    /\ Concat(out[reader].items) = raw.text

C17_Witness == raw = StrBody(InterfaceId(2) \o InterfaceId(1)) /\ out.node = ListBody(<<InterfaceId(2), InterfaceId(1)>>) /\ out.physical = ListBody(<<InterfaceId(2), InterfaceId(1)>>)

\* C18 as stated: a string whose length is not a multiple of 36 becomes, in
\* get_node_interfaces and in get_physical_interfaces, the one-element
\* sequence holding the whole string, not the bare string and not an error.
C18_WholeStringAsOneId ==
  (raw.kind = "str" /\ Len(raw.text) % IdWidth # 0) =>
    \A reader \in {"node", "physical"} : Read(reader) => out[reader] = ListBody(<<raw.text>>)

\* C19 as stated: in get_node_interfaces and in get_physical_interfaces a
\* list answer becomes itself and a mapping becomes the sequence of its keys
\* in insertion order.
C19_ListAndMapping ==
  (raw.kind \in {"list", "dict"}) =>
    \A reader \in {"node", "physical"} : Read(reader) => out[reader] = ListBody(raw.items)

\* The identifier sequence a reader derived, or that it derived none.
Derived(v) == IF v.kind = "list" THEN [ok |-> TRUE, items |-> v.items] ELSE [ok |-> FALSE, items |-> <<>>]

\* C20 as stated: get_node_interfaces, get_physical_interfaces and link_nodes
\* derive the same identifier sequence from every decoded answer, or all
\* derive none.
C20_SameAtEverySite ==
  (raw.kind # "raised" /\ Read("node") /\ Read("physical") /\ Read("link")) =>
    (Derived(out.node) = Derived(out.physical) /\ Derived(out.physical) = Derived(out.link))

\* The wait_for_lab_nodes call that returned in the last step, if one did.
WaitReturned == event.ret.status = "str"

\* The lab details the call got say the lab is STARTED.
LabStarted(r) == r.kind = "return" /\ r.body.kind = "dict" /\ r.body.state = "STARTED"

\* C21: when the request of the lab details ends and they are not an object
\* in state STARTED (or the request failed), wait_for_lab_nodes returns the
\* "not started" result in that very step, having requested no node listing
\* and no node state and having slept not once.
C21_NotStartedAtOnce ==
  [][(tpc["t1"] = "w_lab" /\ event'.req.kind # "none" /\ ~LabStarted(event'.req))
       => (/\ event'.ret = NotStarted
           /\ tpc'["t1"] = "idle"
           /\ event'.wait.listings = 0
           /\ event'.wait.samples = 0
           /\ event'.wait.sleeps = 0)]_vars

\* The call returned "not started" for a lab that answered STOPPED.
C21_Witness == event.ret = NotStarted /\ event.req.kind = "return" /\ event.req.body.kind = "dict" /\ event.req.body.state = "STOPPED"

\* Every node of the round handed over reported STARTED.
AllStarted(w) == Len(w.round) = Len(w.nodes.items) /\ \A i \in 1..Len(w.round) : w.round[i] = "STARTED"

\* The node listing the call got is an error string, which it returns as it is.
ListingFailed(w) == w.nodes.kind = "str" /\ Contains(w.nodes.text, ErrorWord)

\* C22: a started wait_for_lab_nodes call eventually returns, whatever the
\* nodes report; a call that got its node listing and whose deadline has
\* passed returns the timeout result, and the timeout result is returned
\* only then, after no round or a round with a node not STARTED; it differs
\* from the ready, the "not started" and the error results.
C22_ReturnsByDeadline ==
  /\ (tpc["t1"] # "idle") ~> (tpc["t1"] = "idle")
  /\ [](WaitReturned =>
          /\ (event.wait.listings = 1 /\ ~ListingFailed(event.wait) /\ event.wait.elapsed >= event.wait.timeout) => event.ret = TimeoutReached
          /\ event.ret = TimeoutReached => (event.wait.elapsed >= event.wait.timeout /\ (event.wait.rounds = 0 \/ ~AllStarted(event.wait)))
          /\ event.ret = TimeoutReached => (event.ret \notin {AllNodesReady, NotStarted, ErrorWaitingForNodes} /\ ~ListingFailed(event.wait)))

\* The call returned the timeout result after two rounds.
C22_Witness == event.ret = TimeoutReached /\ event.wait.rounds = 2 /\ event.wait.sleeps = 2

\* C23: wait_for_lab_nodes returns "all nodes ready" only after a round in
\* which every node of the node set reported STARTED, and the step that ends
\* such a round returns it: the task neither sleeps nor samples again.
C23_ReadyOnlyAfterFullRound ==
  [][/\ event'.ret = AllNodesReady => (event'.wait.rounds >= 1 /\ AllStarted(event'.wait))
     /\ (/\ tpc["t1"] = "w_node"
         /\ event'.req.kind = "return"
         /\ event'.req.body.kind = "dict"
         /\ Len(sampled) + 1 = Len(nodes.items)
         /\ \A i \in 1..Len(sampled) : sampled[i] = "STARTED"
         /\ event'.req.body.state = "STARTED")
        => (event'.ret = AllNodesReady /\ tpc'["t1"] = "idle")]_vars

\* The call returned ready after a sleep, with every node sampled.
C23_Witness == event.ret = AllNodesReady /\ event.wait.sleeps = 1 /\ Len(event.wait.round) = 2

\* C24: when wait_for_lab_nodes returns, the time since start_time is at
\* most the timeout argument.
C24_WithinTimeout == WaitReturned => event.wait.elapsed <= event.wait.timeout

\* C25: the node listing is requested once, before the first round; a round
\* that ends (in the ready result or in a sleep) has sampled every node of
\* the node set, so that the node states requested are as many as rounds
\* times nodes; and the node set stays the same from round to round.
C25_OneListingFullRounds ==
  [][/\ listings' <= 1
     /\ tpc'["t1"] \in {"w_node", "w_sleep"} => listings' = 1
     /\ (event'.wait.rounds >= 1 /\ event'.ret # ErrorWaitingForNodes)
          => (/\ event'.wait.listings = 1
              /\ Len(event'.wait.round) = Len(event'.wait.nodes.items)
              /\ event'.wait.samples = event'.wait.rounds * Len(event'.wait.nodes.items))
     /\ (tpc["t1"] \in {"w_node", "w_sleep"} /\ tpc'["t1"] \in {"w_node", "w_sleep"}) => nodes' = nodes]_vars

\* A second round has ended over a set of two nodes.
C25_Witness == tpc["t1"] = "w_sleep" /\ event.wait.rounds = 2 /\ Len(event.wait.nodes.items) = 2

\* A returned value that tells a failure: a dict with "error", or a string
\* that starts with "Error".
IsError(value) == value.status = "error" \/ (value.status = "str" /\ value.message # <<>> /\ value.message[1] = "Error")

\* The values of the sub-operations that the step handed on: to the caller
\* of the tool if it returned, to the tool itself if it goes on.
Handed(ended, ev, got) == IF ended THEN ev.made.results ELSE got

\* The positions whose answer is decoded as an object.
ObjectPositions == {"r_add", "o_lab", "o_router1", "o_router2", "s_lab", "s_switch", "t_nodes"}

\* C26: no tool ever ends in an unhandled fault; and in the step in which a
\* request of a tool fails (it raises, or its answer is not the object the
\* tool decodes), the operation that made the request hands an error value
\* to its caller: the tool returns one, or the sub-operation returns one to
\* the tool that called it.
C26_ErrorValueNotFault ==
  [][/\ event'.ret.status # "raise"
     /\ (/\ tpc["t1"] # "idle"
         /\ \/ event'.req.kind = "raise"
            \/ (tpc["t1"] \in ObjectPositions /\ event'.req.kind = "return" /\ event'.req.body.kind # "dict"))
        => LET handed == Handed(tpc'["t1"] = "idle", event', results')
           IN \/ (tpc'["t1"] = "idle" /\ IsError(event'.ret))
              \/ (handed # <<>> /\ IsError(handed[Len(handed)].value))]_vars

\* create_stp_lab returned its error value after the request of a switch raised.
C26_Witness == event.made.tool = "create_stp_lab" /\ event.req.kind = "raise" /\ event.ret = ErrorCreatingStpLab /\ Len(event.made.results) = 3

\* C27: troubleshoot_lab, once the framework has begun, attempts every node
\* of its node list in list order whatever the earlier nodes did, records an
\* error step for each node whose diagnosis raised, and returns the report.
C27_EveryNodeAttempted ==
  [][(tpc["t1"] = "t_node" /\ tpc'["t1"] = "idle")
       => LET done == event'.made
          IN /\ event'.ret = Report
             /\ Len(done.results) = Len(done.nodes)
             /\ Len(done.report) = Len(done.nodes)
             /\ \A k \in 1..Len(done.nodes) :
                  /\ done.results[k].on = done.nodes[k]
                  /\ IsError(done.results[k].value) => done.report[k] = [name |-> done.nodes[k], status |-> "error"]]_vars

\* The report was returned after the diagnosis of the first of two nodes raised.
C27_Witness == event.ret = Report /\ Len(event.made.results) = 2 /\ IsError(event.made.results[1].value) /\ ~IsError(event.made.results[2].value)

\* C28: create_ospf_lab, create_stp_lab and delete_lab return a success
\* value only if every configure_node, link_nodes and stop_lab call they
\* made returned without failure.
C28_NoFailureSwallowed ==
  (event.made.tool \in {"create_ospf_lab", "create_stp_lab", "delete_lab"} /\ ~IsError(event.ret))
    => \A k \in 1..Len(event.made.results) :
         event.made.results[k].op \in {"configure_node", "link_nodes", "stop_lab"} => ~IsError(event.made.results[k].value)

\* C29: a create_stp_lab call in which nothing failed has created
\* num_switches switches and returns as many.
C29_ExactlyNumSwitches ==
  (event.made.tool = "create_stp_lab" /\ event.ret = StpLabCreated /\ \A k \in 1..Len(event.made.results) : ~IsError(event.made.results[k].value))
    => Len(Switches(event.made.results)) = event.made.num_switches

\* C30: the token and the default Authorization header of the session in
\* use change only where authenticate stores the token it was sent;
\* authenticate is called only by initialize_client, by a request call that
\* finds no token, and by a request call whose first answer has status 401;
\* a step of a request call that has not called authenticate leaves both
\* unchanged, whether it ends the call with a returned response or with an
\* exception; and the session object is replaced only by a step that starts
\* initialize_client.
C30_TokenOnlyByAuthentication ==
  [][/\ (cml_auth' = cml_auth /\ (token' # token \/ defaultAuth' # defaultAuth))
          => \E c \in Tasks : pc[c] = "auth_post" /\ pc'[c] = "auth_ok" /\ token' = Strip(event'.text) /\ defaultAuth' = Bearer(token')
     /\ \A c \in Tasks :
          /\ (pc[c] # "auth_post" /\ pc'[c] = "auth_post")
               => \/ (tpc[c] = "idle" /\ tpc'[c] = "init")
                  \/ (pc[c] = "check" /\ Falsy(token))
                  \/ (pc[c] = "resp1" /\ event'.status = Unauthorized)
          /\ (pc'[c] # pc[c] /\ authState[c] = "no" /\ cml_auth' = cml_auth)
               => (token' = token /\ defaultAuth' = defaultAuth)
     /\ cml_auth' # cml_auth => \E c \in Tasks : tpc[c] = "idle" /\ tpc'[c] = "init"]_vars

\* On the second session object, a request call that found a token and did
\* not authenticate has ended with the exception of a 500 answer.
C30_Witness ==
  /\ cml_auth = 2
  /\ ~Falsy(token)
  /\ event.req.kind = "raise"
  /\ event.req.status = 500
  /\ event.req.sends = 1
  /\ event.req.authenticated = "no"

\* C31: a failed authentication POST (transport error or a status outside
\* 2xx) raises and leaves the token and the default Authorization header as
\* they were; a request call that then finds a token does not authenticate
\* first, sends with that token, and ends at its first answer only if the
\* answer is not a 401.
C31_FailedAuthenticationKeepsSession ==
  [][\A c \in Tasks :
       /\ (pc[c] = "auth_post" /\ pc'[c] \notin {"auth_post", "auth_ok"})
            => /\ token' = token
               /\ defaultAuth' = defaultAuth
               /\ event'.req.kind = "raise"
               /\ event'.req.authenticated = "failed"
       /\ (pc[c] = "check" /\ pc'[c] # "check" /\ ~Falsy(token)) => pc'[c] = "attach"
       /\ (pc[c] = "send" /\ pc'[c] = "resp1") => inflight'[c].auth = Bearer(token)
       /\ (pc[c] = "resp1" /\ pc'[c] \notin {"resp1", "auth_post"}) => event'.req.status # Unauthorized]_vars

\* A re-authentication after a 401 has failed and the stale token is still
\* the token and the default header of the session.
C31_Witness ==
  /\ event.req.kind = "raise"
  /\ event.req.authenticated = "failed"
  /\ event.req.reauths = 1
  /\ ~Falsy(token)
  /\ defaultAuth = Bearer(token)

\* The tools of the process specification that return text.
TextTools == {"delete_lab", "wait_for_lab_nodes"}

\* The tools of the process specification that return a dict.
DictTools == {"create_link_v3", "create_router"}

C33_ConsoleManagerOnCurrentSession ==
  ((\A c \in Tasks : tpc[c] # "init") /\ console_manager # 0) => console_manager = cml_auth

OspfSteps == <<"o_lab", "o_router1", "o_router2", "o_link", "o_config1", "o_config2">>

\* C35: create_ospf_lab enters its steps in the order create lab, Router1,
\* Router2, link, configure Router1, configure Router2, each one only from
\* the one before; a failure of the lab creation, of a router creation or
\* of the linking ends the call in that step with an error value, so that
\* no later step is entered; the call returns its success value only after
\* the second configuration.
C35_OrderedAbortAtFirstFailure ==
  [][\A k \in 1..Len(OspfSteps) :
       /\ (tpc["t1"] # OspfSteps[k] /\ tpc'["t1"] = OspfSteps[k])
            => tpc["t1"] = (IF k = 1 THEN "idle" ELSE OspfSteps[k - 1])
       /\ (tpc["t1"] = OspfSteps[k] /\ tpc'["t1"] # OspfSteps[k])
            => LET handed == Handed(tpc'["t1"] = "idle", event', results')
                   failed == \/ (k <= 3 /\ (event'.req.kind = "raise" \/ event'.req.body.kind # "dict"))
                             \/ (k <= 4 /\ IsError(handed[Len(handed)].value))
               IN /\ Len(handed) = k
                  /\ IF failed
                       THEN tpc'["t1"] = "idle" /\ IsError(event'.ret)
                       ELSE IF k < Len(OspfSteps)
                              THEN tpc'["t1"] = OspfSteps[k + 1]
                              ELSE tpc'["t1"] = "idle" /\ event'.ret.status = "success"]_vars

\* The linking failed and the call returned its error without configuring.
C35_Witness ==
  /\ event.made.tool = "create_ospf_lab"
  /\ Len(event.made.results) = 4
  /\ event.made.results[4].op = "link_nodes"
  /\ IsError(event.made.results[4].value)
  /\ event.ret.status = "error"

\* C36: link_nodes never sends a link-creation request whose src_int and
\* dst_int are the same interface identifier, whatever the two node
\* arguments (node_id_b equal to node_id_a included) and whatever the
\* interfaces answer.
C36_DistinctEndpoints ==
  [][\A c \in Tasks :
       (tpc[c] = "post" /\ Sends(c) /\ inflight'[c].endpoint = LinksEndpoint)
         => inflight'[c].json.src_int # inflight'[c].json.dst_int]_vars

\* link_nodes called with the same node twice has sent the link-creation
\* request with one interface of that node as both ends.
C36_SameNodeSameInterface ==
  /\ tpc["t1"] = "post"
  /\ pc["t1"] \in {"resp1", "resp2"}
  /\ node_id_b = node_id_a
  /\ inflight["t1"].endpoint = LinksEndpoint
  /\ inflight["t1"].json.src_int = inflight["t1"].json.dst_int

\* C37: when the node listing of a STARTED lab has been got and the timeout
\* argument is 0 or less, wait_for_lab_nodes returns the timeout result in
\* that very step, with no round begun, no node state requested and no sleep,
\* whatever the nodes would report; and a round begins only while the time
\* since start_time is less than the timeout.
C37_NoRoundOnceTimedOut ==
  [][/\ (tpc["t1"] = "w_nodes" /\ event'.req.kind # "none" /\ timeout <= 0 /\ ~ListingFailed(event'.wait))
          => (/\ event'.ret = TimeoutReached
              /\ tpc'["t1"] = "idle"
              /\ event'.wait.rounds = 0
              /\ event'.wait.samples = 0
              /\ event'.wait.sleeps = 0)
     /\ rounds' > rounds => elapsed' < timeout'
     /\ event'.wait.rounds > rounds => event'.wait.elapsed < event'.wait.timeout]_vars

\* The call with timeout 0 returned the timeout result for a set of two
\* nodes, none of them asked for its state.
C37_Witness ==
  /\ event.ret = TimeoutReached
  /\ event.wait.timeout = 0
  /\ event.wait.nodes.kind = "dict"
  /\ Len(event.wait.nodes.items) = 2
  /\ event.wait.rounds = 0
  /\ event.wait.samples = 0

\* The answer to the node listing gives an empty node set: an array with no
\* node that has an id, or an object without keys.
EmptyNodeSet(r) ==
  /\ r.kind = "return"
  /\ \/ r.body.kind = "list" /\ \A i \in 1..Len(r.body.items) : FalsyId(r.body.items[i])
     \/ r.body.kind = "dict" /\ r.body.items = <<>>

\* C38: when the node listing of a STARTED lab gives an empty node set and
\* the timeout argument is positive, wait_for_lab_nodes returns "all nodes
\* ready" in that very step, after one round in which no node state was
\* requested, and without a sleep.
C38_EmptyNodeSetReady ==
  [][(tpc["t1"] = "w_nodes" /\ event'.req.kind # "none" /\ EmptyNodeSet(event'.req) /\ timeout > 0)
       => (/\ event'.ret = AllNodesReady
           /\ tpc'["t1"] = "idle"
           /\ event'.wait.rounds = 1
           /\ event'.wait.samples = 0
           /\ event'.wait.sleeps = 0)]_vars

\* The call returned ready for a lab without nodes.
C38_Witness ==
  /\ event.ret = AllNodesReady
  /\ event.req.kind = "return"
  /\ event.req.body = ListBody(<<>>)
  /\ event.wait.timeout > 0
  /\ event.wait.nodes = DictBody(<<>>)
  /\ event.wait.rounds = 1
  /\ event.wait.samples = 0
  /\ event.wait.sleeps = 0

====
